---- MODULE Spec2Model ----
(***************************************************************************)
(* SmartPantry server: the in-memory Item Store (MemStorage) and the HTTP  *)
(* routes of registerRoutes (inventory CRUD, /api/recognize and            *)
(* /api/recipe-suggestions), modelled from src/server/routes.ts; and the   *)
(* client's scan session (App.tsx) and Processing page.                    *)
(***************************************************************************)
EXTENDS Integers, Sequences, FiniteSets, TLC

VARIABLES
    inventory,           \* MemStorage.inventory: Map<number, InventoryItem>
    inventoryCurrentId,  \* MemStorage.inventoryCurrentId
    clock,               \* the wall clock: new Date() reads it, and time passes
    inflight,            \* requests suspended at an await: of anthropic.messages.create,
                         \* or of the promise a call of the store returned
    last,                \* the request handled last and the response it was sent
    created,             \* history: the identities assigned, in order of creation
    deleted,             \* history: the identities deleteInventoryItem was called with
    capturedImages,      \* Router state: the images captured in the session
    currentImageIndex,   \* Router state: the image the Processing page is given
    routerRecognizedItems,  \* Router state recognizedItems: the items shown on Results
    sessionItems,        \* Router state: the items of the session
    page,                \* the path of the location, which selects the mounted page
    timer,               \* Processing: the timer its effect set, while it is pending
    runs,                \* Processing: the calls of processImage that have not ended
    recognizeCalls,      \* history: the calls of recognizeImage since Processing mounted
    completeCalls        \* history: the calls of onRecognitionComplete since then

serverVars == <<inventory, inventoryCurrentId, clock, inflight, last, created, deleted>>

clientVars == <<capturedImages, currentImageIndex, routerRecognizedItems, sessionItems,
                page, timer, runs, recognizeCalls, completeCalls>>

vars == <<serverVars, clientVars>>

----------------------------------------------------------------------------
(* Bounds of the model *)

\* createInventoryItem is called at most MaxId times
MaxId == 2
\* at most MaxInFlight requests wait for the external model together
MaxInFlight == 1
\* at most MaxPending requests wait for a promise of the store together
MaxPending == 2
\* at most MaxImages images are captured
MaxImages == 2
\* at most MaxRuns calls of processImage are alive together
MaxRuns == 2
\* recognizeImage is called at most MaxCalls times while Processing is mounted
MaxCalls == 3

----------------------------------------------------------------------------
(* JavaScript values: a field that may be null, undefined, a string or a   *)
(* number is a tagged record, so that ||, ?? and `in` are what they are in *)
(* the source.                                                             *)

Null == [t |-> "null"]
Undefined == [t |-> "undefined"]
Str(s) == [t |-> "string", s |-> s]
Num(n) == [t |-> "number", n |-> n]

\* the operand tests of `a || b` and `!a`
Falsy(v) ==
    \/ v.t \in {"null", "undefined"}
    \/ v.t = "string" /\ v.s = ""
    \/ v.t = "number" /\ v.n = 0

\* a || b
Or(a, b) == IF Falsy(a) THEN b ELSE a

\* a ?? b
Nullish(a, b) == IF a.t \in {"null", "undefined"} THEN b ELSE a

\* obj.key of an object given as a function on its own keys
Prop(obj, key) == IF key \in DOMAIN obj THEN obj[key] ELSE Undefined

\* String.prototype.toLowerCase on the names of the model
toLowerCase(s) ==
    CASE s = "Egg" -> "egg"
      [] s = "EGG" -> "egg"
      [] s = "Milk" -> "milk"
      [] OTHER -> s

----------------------------------------------------------------------------
(* MemStorage *)

NoItem == [absent |-> TRUE]

\* Array.from(this.inventory.values()): a Map iterates in insertion order, and
\* keys are inserted in increasing order (set on an existing key keeps its place)
RECURSIVE ValuesFrom(_, _)
ValuesFrom(inv, ids) ==
    IF ids = {} THEN <<>>
    ELSE LET m == CHOOSE i \in ids : \A j \in ids : i <= j
         IN  <<inv[m]>> \o ValuesFrom(inv, ids \ {m})

getInventoryItems(inv) == ValuesFrom(inv, DOMAIN inv)

getInventoryItemById(inv, id) == IF id \in DOMAIN inv THEN inv[id] ELSE NoItem

getInventoryItemsByLocation(inv, location) ==
    SelectSeq(getInventoryItems(inv), LAMBDA item : item.location = location)

\* Array.prototype.find: the first element that satisfies the test
getInventoryItemByName(inv, name) ==
    LET hits == SelectSeq(getInventoryItems(inv),
                          LAMBDA item : toLowerCase(item.name) = toLowerCase(name))
    IN  IF hits = <<>> THEN NoItem ELSE hits[1]

\* a faulty createInventoryItem: an upsert keyed by name, which writes over the first
\* record of that name instead of drawing a new identity
createInventoryItemUpsertByName(inv, curId, now, insertItem) ==
    LET found == getInventoryItemByName(inv, insertItem.name)
        id == IF found = NoItem THEN curId ELSE found.id
        item == [ name       |-> insertItem.name,
                  location   |-> insertItem.location,
                  quantity   |-> Or(Prop(insertItem, "quantity"), Null),
                  unit       |-> Or(Prop(insertItem, "unit"), Null),
                  imageUrl   |-> Or(Prop(insertItem, "imageUrl"), Null),
                  confidence |-> Or(Prop(insertItem, "confidence"), Null),
                  expiryDate |-> Or(Prop(insertItem, "expiryDate"), Null),
                  id         |-> id,
                  addedDate  |-> now ]
    IN  [ inventory |-> [k \in DOMAIN inv \cup {id} |-> IF k = id THEN item ELSE inv[k]],
          inventoryCurrentId |-> curId + 1,
          item |-> item ]

\* a faulty createInventoryItem: the identity is this.inventory.size + 1
createInventoryItemSizeId(inv, curId, now, insertItem) ==
    LET id == Cardinality(DOMAIN inv) + 1
        item == [ name       |-> insertItem.name,
                  location   |-> insertItem.location,
                  quantity   |-> Or(Prop(insertItem, "quantity"), Null),
                  unit       |-> Or(Prop(insertItem, "unit"), Null),
                  imageUrl   |-> Or(Prop(insertItem, "imageUrl"), Null),
                  confidence |-> Or(Prop(insertItem, "confidence"), Null),
                  expiryDate |-> Or(Prop(insertItem, "expiryDate"), Null),
                  id         |-> id,
                  addedDate  |-> now ]
    IN  [ inventory |-> [k \in DOMAIN inv \cup {id} |-> IF k = id THEN item ELSE inv[k]],
          inventoryCurrentId |-> curId + 1,
          item |-> item ]

\* a faulty createInventoryItem: the identity is read from the counter, and the counter
\* is left as it was
createInventoryItemNoAdvance(inv, curId, now, insertItem) ==
    LET id == curId
        item == [ name       |-> insertItem.name,
                  location   |-> insertItem.location,
                  quantity   |-> Or(Prop(insertItem, "quantity"), Null),
                  unit       |-> Or(Prop(insertItem, "unit"), Null),
                  imageUrl   |-> Or(Prop(insertItem, "imageUrl"), Null),
                  confidence |-> Or(Prop(insertItem, "confidence"), Null),
                  expiryDate |-> Or(Prop(insertItem, "expiryDate"), Null),
                  id         |-> id,
                  addedDate  |-> now ]
    IN  [ inventory |-> [k \in DOMAIN inv \cup {id} |-> IF k = id THEN item ELSE inv[k]],
          inventoryCurrentId |-> curId,
          item |-> item ]

\* a faulty createInventoryItem: a quantity that is not given is stored as "1"
createInventoryItemDefaultQuantity(inv, curId, now, insertItem) ==
    LET id == curId
        item == [ name       |-> insertItem.name,
                  location   |-> insertItem.location,
                  quantity   |-> Or(Prop(insertItem, "quantity"), Str("1")),
                  unit       |-> Or(Prop(insertItem, "unit"), Null),
                  imageUrl   |-> Or(Prop(insertItem, "imageUrl"), Null),
                  confidence |-> Or(Prop(insertItem, "confidence"), Null),
                  expiryDate |-> Or(Prop(insertItem, "expiryDate"), Null),
                  id         |-> id,
                  addedDate  |-> now ]
    IN  [ inventory |-> [k \in DOMAIN inv \cup {id} |-> IF k = id THEN item ELSE inv[k]],
          inventoryCurrentId |-> curId + 1,
          item |-> item ]

\* the store and the counter after createInventoryItem, and the item it returns; now
\* is what new Date() reads
createInventoryItem(inv, curId, now, insertItem) ==
    LET id == curId
        item == [ name       |-> insertItem.name,
                  location   |-> insertItem.location,
                  quantity   |-> Or(Prop(insertItem, "quantity"), Null),
                  unit       |-> Or(Prop(insertItem, "unit"), Null),
                  imageUrl   |-> Or(Prop(insertItem, "imageUrl"), Null),
                  confidence |-> Or(Prop(insertItem, "confidence"), Null),
                  expiryDate |-> Or(Prop(insertItem, "expiryDate"), Null),
                  id         |-> id,
                  addedDate  |-> now ]
    IN  [ inventory |-> [k \in DOMAIN inv \cup {id} |-> IF k = id THEN item ELSE inv[k]],
          inventoryCurrentId |-> curId + 1,
          item |-> item ]

UpdatableFields ==
    {"name", "location", "quantity", "unit", "imageUrl", "confidence", "expiryDate"}

\* the fields of processedUpdate: `if ('f' in updateItem) processedUpdate.f = ...`
processedUpdate(updateItem) ==
    [f \in (DOMAIN updateItem) \cap UpdatableFields |->
        IF f \in {"name", "location"} THEN updateItem[f]
        ELSE Nullish(updateItem[f], Null)]

\* a faulty updateInventoryItem: the record is rebuilt from the payload, and a field
\* the payload leaves out becomes null
updateInventoryItemReplace(inv, id, updateItem) ==
    IF id \notin DOMAIN inv THEN [inventory |-> inv, item |-> NoItem]
    ELSE LET existingItem == inv[id]
             updatedItem == [f \in DOMAIN existingItem |->
                                IF f \in {"id", "addedDate"} THEN existingItem[f]
                                ELSE IF f \in {"name", "location"}
                                THEN IF f \in DOMAIN updateItem THEN updateItem[f]
                                     ELSE existingItem[f]
                                ELSE Nullish(Prop(updateItem, f), Null)]
         IN  [ inventory |-> [inv EXCEPT ![id] = updatedItem], item |-> updatedItem ]

\* a faulty updateInventoryItem: on an absent id the payload is stored as a new record
updateInventoryItemUpsert(inv, id, updateItem) ==
    LET upd == processedUpdate(updateItem)
        existingItem == IF id \in DOMAIN inv THEN inv[id]
                        ELSE [f \in UpdatableFields \cup {"id", "addedDate"} |->
                                 IF f = "id" THEN id ELSE Null]
        updatedItem == [f \in DOMAIN existingItem |->
                           IF f \in DOMAIN upd THEN upd[f] ELSE existingItem[f]]
    IN  [ inventory |-> [k \in DOMAIN inv \cup {id} |->
                            IF k = id THEN updatedItem ELSE inv[k]],
          item |-> updatedItem ]

\* a faulty updateInventoryItem: the record is stamped anew when it is written back
updateInventoryItemRestamp(inv, id, updateItem) ==
    IF id \notin DOMAIN inv THEN [inventory |-> inv, item |-> NoItem]
    ELSE LET existingItem == inv[id]
             upd == processedUpdate(updateItem)
             updatedItem == [f \in DOMAIN existingItem |->
                                IF f = "addedDate" THEN existingItem[f] + 1
                                ELSE IF f \in DOMAIN upd THEN upd[f] ELSE existingItem[f]]
         IN  [ inventory |-> [inv EXCEPT ![id] = updatedItem], item |-> updatedItem ]

\* the store after updateInventoryItem, and the item it returns (NoItem: undefined)
updateInventoryItem(inv, id, updateItem) ==
    IF id \notin DOMAIN inv THEN [inventory |-> inv, item |-> NoItem]
    ELSE LET existingItem == inv[id]
             upd == processedUpdate(updateItem)
             updatedItem == [f \in DOMAIN existingItem |->
                                IF f \in DOMAIN upd THEN upd[f] ELSE existingItem[f]]
         IN  [ inventory |-> [inv EXCEPT ![id] = updatedItem], item |-> updatedItem ]

\* a faulty deleteInventoryItem: it reports the record as removed and keeps it
deleteInventoryItemKeep(inv, id) ==
    [ inventory |-> inv, result |-> id \in DOMAIN inv ]

\* Map.prototype.delete: true when the key was present
deleteInventoryItem(inv, id) ==
    [ inventory |-> [k \in DOMAIN inv \ {id} |-> inv[k]], result |-> id \in DOMAIN inv ]

----------------------------------------------------------------------------
(* Requests *)

\* bodies that insertInventoryItemSchema accepts (validationResult.data)
PostData ==
    { [name |-> "egg", location |-> "Fridge", quantity |-> Str("6"), unit |-> Str("pcs")],
      [name |-> "Egg", location |-> "Fridge", quantity |-> Str("6"), unit |-> Str(""),
       confidence |-> Num(90), expiryDate |-> Str("2026-11-16")],
      [name |-> "egg", location |-> "Cabinet", unit |-> Str("dozen")] }

\* of these, the bodies that make the entries of the recipe prompt's inventory list
\* differ: one with a quantity and a unit, one without a quantity
PromptPostData == { d \in PostData : "confidence" \notin DOMAIN d }

\* bodies that insertInventoryItemSchema.partial() accepts
PutData ==
    { [quantity |-> Str("5")],
      [name |-> "milk", location |-> "Cabinet", unit |-> Null] }

\* a request body: one the schema rejects, or validated data
InvalidBody == [valid |-> FALSE]
Body(data) == [valid |-> TRUE, data |-> data]

\* bodies of PUT requests as they arrive: those above, and one that names id and
\* addedDate beside a quantity
PutRequestBodies ==
    PutData \cup { [id |-> 2, addedDate |-> 99, quantity |-> Str("5")] }

\* insertInventoryItemSchema.partial().safeParse(req.body) on a body it accepts: the
\* schema omits id and addedDate, and the keys a schema does not know are stripped
safeParsePartial(raw) ==
    Body([f \in (DOMAIN raw) \cap UpdatableFields |-> raw[f]])

\* parseInt(req.params.id)
IdParams == 1..MaxId

\* req.query.location
LocationParams == {Undefined, Str("Fridge")}

----------------------------------------------------------------------------
(* The external model's reply.  A reply text is a sequence of tokens: the  *)
(* brackets, braces and commas of JSON, " " for white space, "x" for any   *)
(* other text, "bad" for text that is no JSON, and one token for the       *)
(* members of an object.                                                   *)

\* the members each member token stands for, as JSON.parse returns them
Members(tok) ==
    CASE tok = "mEgg"    -> [name |-> Str("Egg"), confidence |-> Num(95),
                             quantity |-> Str("6"), unit |-> Str("")]
      [] tok = "mMilk"   -> [name |-> Str("Milk"), confidence |-> Num(80)]
      [] tok = "mNoName" -> [confidence |-> Num(70)]
      [] tok = "mRecipe" -> [id |-> Str("r-1"), title |-> Str("Omelette")]

MemberTokens == {"mEgg", "mMilk", "mNoName", "mRecipe"}

ReplyTexts ==
    { <<"x">>,
      <<"[", "]">>,
      <<"[", "{", "mEgg", "}", "]">>,
      <<"x", "[", " ", "{", "mEgg", "}", ",", "{", "mMilk", "}", " ", "]", "x">>,
      <<"[", "{", "mEgg", "}", "]", "x", "[", "{", "mMilk", "}", "]">>,
      <<"[", "{", "mEgg", "}", ",", "{", "mNoName", "}", "]">>,
      <<"[", "{", "bad", "}", "]">>,
      <<"[", "{", "mRecipe", "}", "]">> }

\* the errors anthropic.messages.create rejects with: of the network, of the API
CallErrors == { "ECONNRESET", "401 authentication_error" }

\* what await anthropic.messages.create yields: a rejection, a message with no
\* content block, a first block without text, or a first block with a text
Outcomes ==
    { [ok |-> FALSE, kind |-> "error", error |-> e] : e \in CallErrors }
    \cup
    { [ok |-> TRUE, kind |-> "empty"],
      [ok |-> TRUE, kind |-> "notext"] }
    \cup { [ok |-> TRUE, kind |-> "text", text |-> t] : t \in ReplyTexts }

NoMatch == <<>>

\* the index of the first token at or after i that is not white space (or Len + 1)
RECURSIVE SkipSpace(_, _)
SkipSpace(text, i) ==
    IF i <= Len(text) /\ text[i] = " " THEN SkipSpace(text, i + 1) ELSE i

\* the index of the last token at or before i that is not white space (or 0)
RECURSIVE SkipSpaceBack(_, _)
SkipSpaceBack(text, i) ==
    IF i >= 1 /\ text[i] = " " THEN SkipSpaceBack(text, i - 1) ELSE i

\* responseText.match(/\[\s*\{[\s\S]*\}\s*\]/): the leftmost match, taken greedily
RegexMatch(text) ==
    LET starts == { i \in 1..Len(text) :
                      /\ text[i] = "["
                      /\ SkipSpace(text, i + 1) <= Len(text)
                      /\ text[SkipSpace(text, i + 1)] = "{" }
        EndsFor(i) == { e \in 1..Len(text) :
                          /\ text[e] = "]"
                          /\ SkipSpaceBack(text, e - 1) > SkipSpace(text, i + 1)
                          /\ text[SkipSpaceBack(text, e - 1)] = "}" }
        ok == { i \in starts : EndsFor(i) # {} }
    IN  IF ok = {} THEN NoMatch
        ELSE LET i == CHOOSE a \in ok : \A b \in ok : a <= b
                 e == CHOOSE a \in EndsFor(i) : \A b \in EndsFor(i) : a >= b
             IN  SubSeq(text, i, e)

\* JSON.parse throws a SyntaxError, or returns the value
ParseError == [ok |-> FALSE]
Parsed(v) == [ok |-> TRUE, value |-> v]

\* the elements of a JSON array after its "[": object ("," object)* "]"
RECURSIVE ParseElements(_, _)
ParseElements(toks, acc) ==
    IF Len(toks) >= 3 /\ toks[1] = "{" /\ toks[2] = "}"
    THEN IF Len(toks) = 3 /\ toks[3] = "]" THEN Parsed(Append(acc, <<>>))
         ELSE IF Len(toks) > 4 /\ toks[3] = ","
              THEN ParseElements(SubSeq(toks, 4, Len(toks)), Append(acc, <<>>))
              ELSE ParseError
    ELSE IF Len(toks) >= 4 /\ toks[1] = "{" /\ toks[2] \in MemberTokens /\ toks[3] = "}"
    THEN IF Len(toks) = 4 /\ toks[4] = "]" THEN Parsed(Append(acc, Members(toks[2])))
         ELSE IF Len(toks) > 5 /\ toks[4] = ","
              THEN ParseElements(SubSeq(toks, 5, Len(toks)), Append(acc, Members(toks[2])))
              ELSE ParseError
    ELSE ParseError

\* JSON.parse of a text that starts with "[": white space between tokens is skipped
JSONparse(text) ==
    LET toks == SelectSeq(text, LAMBDA c : c # " ")
    IN  IF Len(toks) >= 2 /\ toks[1] = "[" THEN ParseElements(Tail(toks), <<>>)
        ELSE ParseError

----------------------------------------------------------------------------
(* POST /api/recognize *)

\* imageBase64.replace(/^data:image\/\w+;base64,/, "") on the images of the model
StripDataUrl(s) ==
    CASE s = "data:image/jpeg;base64,QUJD" -> "QUJD"
      [] s = "data:image/png;base64," -> ""
      [] OTHER -> s

\* a faulty test of the image: if (imageBase64 === undefined)
ImageRejectedUndefinedOnly(imageBase64) == imageBase64.t = "undefined"

\* if (!imageBase64)
ImageRejected(imageBase64) == Falsy(imageBase64)

ImageParams ==
    { Undefined, Str(""), Str("QUJD"), Str("data:image/jpeg;base64,QUJD"),
      Str("QU*D"), Num(7) }

fallbackItems ==
    << [name |-> Str("unidentified item"), confidence |-> Num(50),
        quantity |-> Str("1"), unit |-> Str("")] >>

\* recognizedItems.map(item => ({...item, name: item.name.toLowerCase(), ...})):
\* item.name.toLowerCase() throws unless name is a string
MapThrows(recognizedItems) ==
    \E i \in 1..Len(recognizedItems) : Prop(recognizedItems[i], "name").t # "string"

\* a faulty map of the recognized items: the name is passed on as the model wrote it
processedItemsKeepCase(recognizedItems) ==
    [ i \in 1..Len(recognizedItems) |->
        LET item == recognizedItems[i]
        IN  [ f \in DOMAIN item \cup {"name", "quantity", "unit"} |->
                CASE f = "name" -> item.name
                  [] f = "quantity" -> Or(Prop(item, "quantity"), Str("1"))
                  [] f = "unit" -> Or(Prop(item, "unit"), Str(""))
                  [] OTHER -> item[f] ] ]

processedItems(recognizedItems) ==
    [ i \in 1..Len(recognizedItems) |->
        LET item == recognizedItems[i]
        IN  [ f \in DOMAIN item \cup {"name", "quantity", "unit"} |->
                CASE f = "name" -> Str(toLowerCase(item.name.s))
                  [] f = "quantity" -> Or(Prop(item, "quantity"), Str("1"))
                  [] f = "unit" -> Or(Prop(item, "unit"), Str(""))
                  [] OTHER -> item[f] ] ]

\* a faulty inner catch of /api/recognize: the parse error is rethrown to the outer
\* catch, which answers 500
RecognizeParseHardFail(outcome) ==
    IF outcome.kind # "text"
    THEN [status |-> 500, body |-> [message |-> "Failed to analyze image"]]
    ELSE LET jsonMatch == RegexMatch(outcome.text)
             recognizedItems == JSONparse(jsonMatch)
         IN  IF \/ jsonMatch = NoMatch
                \/ ~recognizedItems.ok
                \/ MapThrows(recognizedItems.value)
             THEN [status |-> 500, body |-> [message |-> "Failed to analyze image"]]
             ELSE [status |-> 200,
                   body |-> [items |-> processedItems(recognizedItems.value)]]

\* item.name is a string
HasStringName(item) == Prop(item, "name").t = "string"

\* a faulty map of /api/recognize: an element without a string name is skipped and
\* the other elements are sent
RecognizeParseKeepsMappable(outcome) ==
    IF outcome.kind # "text" THEN [status |-> 200, body |-> [items |-> fallbackItems]]
    ELSE LET jsonMatch == RegexMatch(outcome.text)
             recognizedItems == JSONparse(jsonMatch)
         IN  IF jsonMatch = NoMatch \/ ~recognizedItems.ok
             THEN [status |-> 200, body |-> [items |-> fallbackItems]]
             ELSE [status |-> 200,
                   body |-> [items |-> processedItems(SelectSeq(recognizedItems.value,
                                                                 HasStringName))]]

\* the inner try/catch of /api/recognize on a message the call returned
RecognizeParse(outcome) ==
    IF outcome.kind # "text" THEN [status |-> 200, body |-> [items |-> fallbackItems]]
    ELSE LET jsonMatch == RegexMatch(outcome.text)
             recognizedItems == JSONparse(jsonMatch)
         IN  IF \/ jsonMatch = NoMatch
                \/ ~recognizedItems.ok
                \/ MapThrows(recognizedItems.value)
             THEN [status |-> 200, body |-> [items |-> fallbackItems]]
             ELSE [status |-> 200,
                   body |-> [items |-> processedItems(recognizedItems.value)]]

\* what a block of statements leaves behind: the statuses of the responses it wrote
\* with res.json / res.status(..).json, in order, and whether it ended by throwing
Block(written, thrown) == [written |-> written, thrown |-> thrown]

\* try { body } catch { handler }: the handler runs after a body that threw
TryCatch(body, handler) ==
    IF body.thrown THEN Block(body.written \o handler.written, handler.thrown) ELSE body

\* the inner try of /api/recognize throws: no content block or no text to match, no
\* match, a JSON.parse error, or an element that cannot be mapped
RecognizeTryThrows(outcome) ==
    \/ outcome.kind # "text"
    \/ RegexMatch(outcome.text) = NoMatch
    \/ ~JSONparse(RegexMatch(outcome.text)).ok
    \/ MapThrows(JSONparse(RegexMatch(outcome.text)).value)

\* a faulty inner try of /api/recognize: res.json is called before the statements
\* that throw
RecognizeInnerTrySendsFirst(outcome) == Block(<<200>>, RecognizeTryThrows(outcome))

\* the inner try of /api/recognize: res.json({ items: processedItems }) is its last
\* statement
RecognizeInnerTry(outcome) ==
    IF RecognizeTryThrows(outcome) THEN Block(<<>>, TRUE) ELSE Block(<<200>>, FALSE)

\* /api/recognize from the point the call settles: a rejected call throws in the
\* outer try; the inner catch writes the fallback, the outer catch a 500
RecognizeSettled(outcome) ==
    TryCatch(IF ~outcome.ok THEN Block(<<>>, TRUE)
             ELSE TryCatch(RecognizeInnerTry(outcome), Block(<<200>>, FALSE)),
             Block(<<500>>, FALSE))

----------------------------------------------------------------------------
(* POST /api/recipe-suggestions *)

Arr(a) == [t |-> "array", a |-> a]

IngredientsParams ==
    { Undefined, Str("egg"), Arr(<<>>), Arr(<<"egg">>), Arr(<<"milk", "egg">>) }

\* req.body.focusIngredient as the client sends it: the focus names joined by ",";
\* none, or two
FocusParams == { <<>>, <<"egg", "cheese">> }

\* a faulty test of the ingredients: !ingredients || !Array.isArray(ingredients)
IngredientsRejectedNoLength(ingredients) ==
    \/ Falsy(ingredients)
    \/ ingredients.t # "array"

\* !ingredients || !Array.isArray(ingredients) || ingredients.length === 0
IngredientsRejected(ingredients) ==
    \/ Falsy(ingredients)
    \/ ingredients.t # "array"
    \/ Len(ingredients.a) = 0

\* `${item.name.toLowerCase()} (${quantityStr})`, quantityStr as its words
detailedInventory(allInventoryItems) ==
    [ i \in 1..Len(allInventoryItems) |->
        LET item == allInventoryItems[i]
            unit == Or(item.unit, Str(""))
        IN  [ name |-> toLowerCase(item.name),
              quantityStr |-> IF Falsy(item.quantity) THEN <<"1">>
                              ELSE IF unit.s = "" THEN <<item.quantity.s>>
                              ELSE <<item.quantity.s, unit.s>> ] ]

\* a faulty prompt: the inventory it lists is the ingredients list of the caller
RecipePromptFromCaller(body, allInventoryItems) ==
    [ system |-> "cooking assistant: available ingredients ONLY, respect quantities",
      inventory |-> [ i \in 1..Len(body.ingredients.a) |->
                        [ name |-> toLowerCase(body.ingredients.a[i]),
                          quantityStr |-> <<"1">> ] ],
      instructions |-> { "suggest 3 recipes", "ONLY these ingredients",
                         "respect available quantities", "simple and practical",
                         "return a JSON array of recipe objects" } ]

\* what the request sends to the model: the system text and the user text, the
\* latter as the inventory it lists and the instructions it gives
RecipePrompt(body, allInventoryItems) ==
    [ system |-> "cooking assistant: available ingredients ONLY, respect quantities",
      inventory |-> detailedInventory(allInventoryItems),
      instructions |-> { "suggest 3 recipes", "ONLY these ingredients",
                         "respect available quantities", "simple and practical",
                         "return a JSON array of recipe objects" } ]

\* a faulty inner catch of /api/recipe-suggestions: a synthetic list is sent with 200
RecipeParseFallback(outcome) ==
    IF outcome.kind # "text"
    THEN [status |-> 200, body |-> <<[id |-> Str("fallback"), title |-> Str("Simple meal")]>>]
    ELSE LET jsonMatch == RegexMatch(outcome.text)
             suggestedRecipes == JSONparse(jsonMatch)
         IN  IF jsonMatch = NoMatch \/ ~suggestedRecipes.ok
             THEN [status |-> 200,
                   body |-> <<[id |-> Str("fallback"), title |-> Str("Simple meal")]>>]
             ELSE [status |-> 200, body |-> suggestedRecipes.value]

\* the inner try/catch of /api/recipe-suggestions on a message the call returned
RecipeParse(outcome) ==
    IF outcome.kind # "text"
    THEN [status |-> 500, body |-> [message |-> "Failed to generate recipe suggestions"]]
    ELSE LET jsonMatch == RegexMatch(outcome.text)
             suggestedRecipes == JSONparse(jsonMatch)
         IN  IF jsonMatch = NoMatch \/ ~suggestedRecipes.ok
             THEN [status |-> 500,
                   body |-> [message |-> "Failed to generate recipe suggestions"]]
             ELSE [status |-> 200, body |-> suggestedRecipes.value]

\* the inner try of /api/recipe-suggestions: it throws on no content block or text,
\* no match or a JSON.parse error; res.json(suggestedRecipes) is its last statement
RecipeInnerTry(outcome) ==
    IF \/ outcome.kind # "text"
       \/ RegexMatch(outcome.text) = NoMatch
       \/ ~JSONparse(RegexMatch(outcome.text)).ok
    THEN Block(<<>>, TRUE) ELSE Block(<<200>>, FALSE)

\* /api/recipe-suggestions from the point the call settles: the inner and the outer
\* catch each write a 500
RecipeSettled(outcome) ==
    TryCatch(IF ~outcome.ok THEN Block(<<>>, TRUE)
             ELSE TryCatch(RecipeInnerTry(outcome), Block(<<500>>, FALSE)),
             Block(<<500>>, FALSE))

----------------------------------------------------------------------------
(* The routes *)

NoRequest == [route |-> "none"]

FreeSlots == (1..MaxInFlight) \ DOMAIN inflight

\* inflight with request r suspended in the first free slot
Suspend(r) ==
    LET slot == CHOOSE a \in FreeSlots : \A b \in FreeSlots : a <= b
    IN  [k \in DOMAIN inflight \cup {slot} |-> IF k = slot THEN r ELSE inflight[k]]

Resume(slot) == [k \in DOMAIN inflight \ {slot} |-> inflight[k]]

Init ==
    /\ inventory = <<>>
    /\ inventoryCurrentId = 1
    /\ clock = 0
    /\ inflight = <<>>
    /\ last = NoRequest
    /\ created = <<>>
    /\ deleted = {}
    /\ capturedImages = <<>>
    /\ currentImageIndex = 0
    /\ routerRecognizedItems = <<>>
    /\ sessionItems = <<>>
    /\ page = "/"
    /\ timer = [set |-> FALSE]
    /\ runs = <<>>
    /\ recognizeCalls = 0
    /\ completeCalls = 0

\* app.get("/api/inventory")
GetInventory(location) ==
    /\ last' = [ route |-> "GET /api/inventory", req |-> [location |-> location],
                 storeCalls |-> IF Falsy(location) THEN {"getInventoryItems"}
                                ELSE {"getInventoryItemsByLocation"},
                 status |-> 200,
                 written |-> <<200>>,
                 body |-> IF Falsy(location) THEN getInventoryItems(inventory)
                          ELSE getInventoryItemsByLocation(inventory, location.s) ]
    /\ UNCHANGED clientVars
    /\ UNCHANGED <<inventory, inventoryCurrentId, clock, inflight, created, deleted>>

\* app.get("/api/inventory/:id")
GetInventoryById(id) ==
    LET item == getInventoryItemById(inventory, id)
    IN  /\ last' = [ route |-> "GET /api/inventory/:id", req |-> [id |-> id],
                     storeCalls |-> {"getInventoryItemById"},
                     status |-> IF item = NoItem THEN 404 ELSE 200,
                     written |-> <<IF item = NoItem THEN 404 ELSE 200>>,
                     body |-> IF item = NoItem THEN [message |-> "Item not found"] ELSE item ]
        /\ UNCHANGED clientVars
        /\ UNCHANGED <<inventory, inventoryCurrentId, clock, inflight, created, deleted>>

\* a faulty POST /api/inventory: the identity is drawn before the body is validated
PostInventoryIdBeforeValidation(body) ==
    IF ~body.valid
    THEN /\ inventoryCurrentId <= MaxId
         /\ inventoryCurrentId' = inventoryCurrentId + 1
         /\ last' = [ route |-> "POST /api/inventory", req |-> body, storeCalls |-> {},
                      status |-> 400, written |-> <<400>>,
                      body |-> [message |-> "Validation error"] ]
         /\ UNCHANGED <<clientVars, inventory, clock, inflight, created, deleted>>
    ELSE LET r == createInventoryItem(inventory, inventoryCurrentId, clock, body.data)
         IN  /\ inventoryCurrentId <= MaxId
             /\ inventory' = r.inventory
             /\ inventoryCurrentId' = r.inventoryCurrentId
             /\ clock' = clock + 1
             /\ created' = Append(created, r.item.id)
             /\ last' = [ route |-> "POST /api/inventory", req |-> body,
                          storeCalls |-> {"createInventoryItem"},
                          status |-> 201, written |-> <<201>>, body |-> r.item ]
             /\ UNCHANGED <<clientVars, inflight, deleted>>

\* app.post("/api/inventory")
PostInventory(body) ==
    IF ~body.valid
    THEN /\ last' = [ route |-> "POST /api/inventory", req |-> body, storeCalls |-> {},
                      status |-> 400, written |-> <<400>>,
                      body |-> [message |-> "Validation error"] ]
         /\ UNCHANGED clientVars
         /\ UNCHANGED <<inventory, inventoryCurrentId, clock, inflight, created, deleted>>
    ELSE LET r == createInventoryItem(inventory, inventoryCurrentId, clock, body.data)
         IN  /\ inventoryCurrentId <= MaxId
             /\ inventory' = r.inventory
             /\ inventoryCurrentId' = r.inventoryCurrentId
             /\ clock' = clock + 1
             /\ created' = Append(created, r.item.id)
             /\ last' = [ route |-> "POST /api/inventory", req |-> body,
                          storeCalls |-> {"createInventoryItem"},
                          status |-> 201, written |-> <<201>>, body |-> r.item ]
             /\ UNCHANGED <<clientVars, inflight, deleted>>

\* app.put("/api/inventory/:id")
PutInventory(id, body) ==
    IF ~body.valid
    THEN /\ last' = [ route |-> "PUT /api/inventory/:id", req |-> [id |-> id, body |-> body],
                      storeCalls |-> {},
                      status |-> 400, written |-> <<400>>,
                      body |-> [message |-> "Validation error"] ]
         /\ UNCHANGED clientVars
         /\ UNCHANGED <<inventory, inventoryCurrentId, clock, inflight, created, deleted>>
    ELSE LET r == updateInventoryItem(inventory, id, body.data)
         IN  /\ inventory' = r.inventory
             /\ last' = [ route |-> "PUT /api/inventory/:id",
                          req |-> [id |-> id, body |-> body],
                          storeCalls |-> {"updateInventoryItem"},
                          status |-> IF r.item = NoItem THEN 404 ELSE 200,
                          written |-> <<IF r.item = NoItem THEN 404 ELSE 200>>,
                          body |-> IF r.item = NoItem THEN [message |-> "Item not found"]
                                   ELSE r.item ]
             /\ UNCHANGED <<clientVars, inventoryCurrentId, clock, inflight, created, deleted>>

\* app.delete("/api/inventory/:id")
DeleteInventory(id) ==
    LET r == deleteInventoryItem(inventory, id)
    IN  /\ inventory' = r.inventory
        /\ deleted' = deleted \cup {id}
        /\ last' = [ route |-> "DELETE /api/inventory/:id", req |-> [id |-> id],
                     storeCalls |-> {"deleteInventoryItem"},
                     result |-> r.result,
                     status |-> IF r.result THEN 204 ELSE 404,
                     written |-> <<IF r.result THEN 204 ELSE 404>>,
                     body |-> IF r.result THEN [message |-> ""]
                              ELSE [message |-> "Item not found"] ]
        /\ UNCHANGED <<clientVars, inventoryCurrentId, clock, inflight, created>>

\* app.post("/api/recognize") up to await anthropic.messages.create
RecognizeRequest(imageBase64) ==
    LET req == [imageBase64 |-> imageBase64]
    IN  IF ImageRejected(imageBase64)
        THEN /\ last' = [ route |-> "POST /api/recognize", req |-> req, storeCalls |-> {},
                          status |-> 400, written |-> <<400>>,
                          body |-> [message |-> "Image data is required"] ]
             /\ UNCHANGED clientVars
             /\ UNCHANGED <<inventory, inventoryCurrentId, clock, inflight, created, deleted>>
        ELSE IF imageBase64.t # "string"
        \* imageBase64.replace is not a function: the outer catch
        THEN /\ last' = [ route |-> "POST /api/recognize", req |-> req, storeCalls |-> {},
                          status |-> 500, written |-> <<500>>,
                          body |-> [message |-> "Failed to analyze image"] ]
             /\ UNCHANGED clientVars
             /\ UNCHANGED <<inventory, inventoryCurrentId, clock, inflight, created, deleted>>
        ELSE /\ FreeSlots # {}
             /\ inflight' = Suspend([ route |-> "POST /api/recognize", req |-> req,
                                      storeCalls |-> {},
                                      sent |-> [ media_type |-> "image/jpeg",
                                                 data |-> StripDataUrl(imageBase64.s) ] ])
             /\ UNCHANGED clientVars
             /\ UNCHANGED <<inventory, inventoryCurrentId, clock, last, created, deleted>>

\* a faulty outer catch of /api/recognize: the message of the error is sent to the caller
RecognizeReplyLeaky(slot, outcome) ==
    /\ slot \in DOMAIN inflight
    /\ inflight[slot].route = "POST /api/recognize"
    /\ LET r == inflight[slot]
           res == IF ~outcome.ok
                  THEN [status |-> 500, body |-> [message |-> outcome.error]]
                  ELSE RecognizeParse(outcome)
       IN  last' = [ route |-> r.route, req |-> r.req, storeCalls |-> r.storeCalls,
                     outcome |-> outcome,
                     status |-> res.status, written |-> RecognizeSettled(outcome).written,
                     body |-> res.body ]
    /\ inflight' = Resume(slot)
    /\ UNCHANGED <<clientVars, inventory, inventoryCurrentId, clock, created, deleted>>

\* a faulty /api/recognize: the first item of a response of 200 is put into the store
RecognizeReplyStoresItem(slot, outcome) ==
    /\ slot \in DOMAIN inflight
    /\ inflight[slot].route = "POST /api/recognize"
    /\ LET r == inflight[slot]
           res == IF ~outcome.ok
                  THEN [status |-> 500, body |-> [message |-> "Failed to analyze image"]]
                  ELSE RecognizeParse(outcome)
           c == createInventoryItem(inventory, inventoryCurrentId, clock,
                                    [ name |-> res.body.items[1].name.s,
                                      location |-> "Fridge" ])
       IN  /\ last' = [ route |-> r.route, req |-> r.req, storeCalls |-> r.storeCalls,
                        outcome |-> outcome,
                        status |-> res.status, written |-> RecognizeSettled(outcome).written,
                        body |-> res.body ]
           /\ IF res.status = 200 /\ inventoryCurrentId <= MaxId
              THEN /\ inventory' = c.inventory
                   /\ inventoryCurrentId' = c.inventoryCurrentId
              ELSE UNCHANGED <<inventory, inventoryCurrentId>>
    /\ inflight' = Resume(slot)
    /\ UNCHANGED <<clientVars, clock, created, deleted>>

\* app.post("/api/recognize") from the point the call settles
RecognizeReply(slot, outcome) ==
    /\ slot \in DOMAIN inflight
    /\ inflight[slot].route = "POST /api/recognize"
    /\ LET r == inflight[slot]
           res == IF ~outcome.ok
                  THEN [status |-> 500, body |-> [message |-> "Failed to analyze image"]]
                  ELSE RecognizeParse(outcome)
       IN  last' = [ route |-> r.route, req |-> r.req, storeCalls |-> r.storeCalls,
                     outcome |-> outcome,
                     status |-> res.status, written |-> RecognizeSettled(outcome).written,
                     body |-> res.body ]
    /\ inflight' = Resume(slot)
    /\ UNCHANGED <<clientVars, inventory, inventoryCurrentId, clock, created, deleted>>

\* app.post("/api/recipe-suggestions") up to await anthropic.messages.create
RecipeRequest(ingredients, focus) ==
    LET req == [ingredients |-> ingredients, focusIngredient |-> focus]
    IN  IF IngredientsRejected(ingredients)
        THEN /\ last' = [ route |-> "POST /api/recipe-suggestions", req |-> req,
                          storeCalls |-> {},
                          status |-> 400, written |-> <<400>>,
                          body |-> [message |-> "Ingredients list is required"] ]
             /\ UNCHANGED clientVars
             /\ UNCHANGED <<inventory, inventoryCurrentId, clock, inflight, created, deleted>>
        ELSE /\ FreeSlots # {}
             /\ inflight' = Suspend([ route |-> "POST /api/recipe-suggestions", req |-> req,
                                      storeCalls |-> {"getInventoryItems"},
                                      sent |-> RecipePrompt(req, getInventoryItems(inventory)) ])
             /\ UNCHANGED clientVars
             /\ UNCHANGED <<inventory, inventoryCurrentId, clock, last, created, deleted>>

\* app.post("/api/recipe-suggestions") from the point the call settles
RecipeReply(slot, outcome) ==
    /\ slot \in DOMAIN inflight
    /\ inflight[slot].route = "POST /api/recipe-suggestions"
    /\ LET r == inflight[slot]
           res == IF ~outcome.ok
                  THEN [status |-> 500,
                        body |-> [message |-> "Failed to generate recipe suggestions"]]
                  ELSE RecipeParse(outcome)
       IN  last' = [ route |-> r.route, req |-> r.req, storeCalls |-> r.storeCalls,
                     outcome |-> outcome,
                     status |-> res.status, written |-> RecipeSettled(outcome).written,
                     body |-> res.body ]
    /\ inflight' = Resume(slot)
    /\ UNCHANGED <<clientVars, inventory, inventoryCurrentId, clock, created, deleted>>

FreePending == (1..MaxPending) \ DOMAIN inflight

\* inflight with request r suspended in the first free slot of the store's promises
SuspendPending(r) ==
    LET slot == CHOOSE a \in FreePending : \A b \in FreePending : a <= b
    IN  [k \in DOMAIN inflight \cup {slot} |-> IF k = slot THEN r ELSE inflight[k]]

\* app.post("/api/inventory") up to the await of storage.createInventoryItem(...): the
\* call runs the whole body of createInventoryItem, which holds no await, and the
\* handler is suspended on the promise it returns
PostInventoryCall(body) ==
    IF ~body.valid
    THEN /\ last' = [ route |-> "POST /api/inventory", req |-> body, storeCalls |-> {},
                      status |-> 400, written |-> <<400>>,
                      body |-> [message |-> "Validation error"] ]
         /\ UNCHANGED clientVars
         /\ UNCHANGED <<inventory, inventoryCurrentId, clock, inflight, created, deleted>>
    ELSE LET r == createInventoryItem(inventory, inventoryCurrentId, clock, body.data)
         IN  /\ inventoryCurrentId <= MaxId
             /\ FreePending # {}
             /\ inventory' = r.inventory
             /\ inventoryCurrentId' = r.inventoryCurrentId
             /\ clock' = clock + 1
             /\ created' = Append(created, r.item.id)
             /\ inflight' = SuspendPending([ route |-> "POST /api/inventory", req |-> body,
                                             storeCalls |-> {"createInventoryItem"},
                                             item |-> r.item ])
             /\ UNCHANGED <<clientVars, last, deleted>>

\* app.post("/api/inventory") from the point the promise is settled
PostInventoryResume(slot) ==
    /\ slot \in DOMAIN inflight
    /\ inflight[slot].route = "POST /api/inventory"
    /\ LET r == inflight[slot]
       IN  last' = [ route |-> r.route, req |-> r.req, storeCalls |-> r.storeCalls,
                     status |-> 201, written |-> <<201>>, body |-> r.item ]
    /\ inflight' = Resume(slot)
    /\ UNCHANGED <<clientVars, inventory, inventoryCurrentId, clock, created, deleted>>

\* app.put("/api/inventory/:id") up to the await of storage.updateInventoryItem(...):
\* the call runs the whole body of updateInventoryItem (read, merge, write back), which
\* holds no await, and the handler is suspended on the promise it returns
PutInventoryCall(id, body) ==
    IF ~body.valid
    THEN /\ last' = [ route |-> "PUT /api/inventory/:id", req |-> [id |-> id, body |-> body],
                      storeCalls |-> {},
                      status |-> 400, written |-> <<400>>,
                      body |-> [message |-> "Validation error"] ]
         /\ UNCHANGED clientVars
         /\ UNCHANGED <<inventory, inventoryCurrentId, clock, inflight, created, deleted>>
    ELSE LET r == updateInventoryItem(inventory, id, body.data)
         IN  /\ FreePending # {}
             /\ inventory' = r.inventory
             /\ inflight' = SuspendPending([ route |-> "PUT /api/inventory/:id",
                                             req |-> [id |-> id, body |-> body],
                                             storeCalls |-> {"updateInventoryItem"},
                                             item |-> r.item ])
             /\ UNCHANGED <<clientVars, inventoryCurrentId, clock, last, created, deleted>>

\* a faulty PUT /api/inventory/:id: the record merged at the call is written to the
\* store when the handler resumes
PutInventoryResumeWritesBack(slot) ==
    /\ slot \in DOMAIN inflight
    /\ inflight[slot].route = "PUT /api/inventory/:id"
    /\ LET r == inflight[slot]
       IN  /\ last' = [ route |-> r.route, req |-> r.req, storeCalls |-> r.storeCalls,
                        status |-> IF r.item = NoItem THEN 404 ELSE 200,
                        written |-> <<IF r.item = NoItem THEN 404 ELSE 200>>,
                        body |-> IF r.item = NoItem THEN [message |-> "Item not found"]
                                 ELSE r.item ]
           /\ inventory' = IF r.item = NoItem THEN inventory
                           ELSE [inventory EXCEPT ![r.req.id] = r.item]
    /\ inflight' = Resume(slot)
    /\ UNCHANGED <<clientVars, inventoryCurrentId, clock, created, deleted>>

\* app.put("/api/inventory/:id") from the point the promise is settled
PutInventoryResume(slot) ==
    /\ slot \in DOMAIN inflight
    /\ inflight[slot].route = "PUT /api/inventory/:id"
    /\ LET r == inflight[slot]
       IN  last' = [ route |-> r.route, req |-> r.req, storeCalls |-> r.storeCalls,
                     status |-> IF r.item = NoItem THEN 404 ELSE 200,
                     written |-> <<IF r.item = NoItem THEN 404 ELSE 200>>,
                     body |-> IF r.item = NoItem THEN [message |-> "Item not found"]
                              ELSE r.item ]
    /\ inflight' = Resume(slot)
    /\ UNCHANGED <<clientVars, inventory, inventoryCurrentId, clock, created, deleted>>

\* the inventory routes
Next ==
    \/ \E location \in LocationParams : GetInventory(location)
    \/ \E id \in IdParams : GetInventoryById(id)
    \/ \E body \in {InvalidBody} \cup {Body(d) : d \in PostData} : PostInventory(body)
    \/ \E id \in IdParams,
          body \in {InvalidBody} \cup {safeParsePartial(raw) : raw \in PutRequestBodies} :
          PutInventory(id, body)
    \/ \E id \in IdParams : DeleteInventory(id)

Spec == Init /\ [][Next]_vars

\* the recognition route: requests, and the replies of the external model
NextRecognize ==
    \/ \E imageBase64 \in ImageParams : RecognizeRequest(imageBase64)
    \/ \E slot \in 1..MaxInFlight, outcome \in Outcomes : RecognizeReply(slot, outcome)

SpecRecognize == Init /\ [][NextRecognize]_vars

\* the recipe route, beside the creations that fill the store its prompt lists
NextRecipes ==
    \/ \E body \in {Body(d) : d \in PromptPostData} : PostInventory(body)
    \/ \E ingredients \in IngredientsParams, focus \in FocusParams :
          RecipeRequest(ingredients, focus)
    \/ \E slot \in 1..MaxInFlight, outcome \in Outcomes : RecipeReply(slot, outcome)

SpecRecipes == Init /\ [][NextRecipes]_vars

\* one outcome of the call for each path of the two handlers: the call fails, the
\* reply holds no match, the reply holds an array
PathOutcomes ==
    { o \in Outcomes :
        \/ ~o.ok /\ o.error = "ECONNRESET"
        \/ o.kind = "text" /\ o.text \in {<<"x">>, <<"[", "{", "mEgg", "}", "]">>} }

\* requests that wait for the external model, beside creations and deletes
NextWaiting ==
    \/ \E body \in {Body(d) : d \in PromptPostData} : PostInventory(body)
    \/ \E id \in IdParams : DeleteInventory(id)
    \/ \E imageBase64 \in {Undefined, Str("QUJD")} : RecognizeRequest(imageBase64)
    \/ \E slot \in 1..MaxInFlight, outcome \in PathOutcomes : RecognizeReply(slot, outcome)
    \/ \E ingredients \in {Arr(<<>>), Arr(<<"egg">>)} : RecipeRequest(ingredients, <<>>)
    \/ \E slot \in 1..MaxInFlight, outcome \in PathOutcomes : RecipeReply(slot, outcome)

SpecWaiting == Init /\ [][NextWaiting]_vars

\* creation requests that interleave at the await of the store's promise, beside
\* deletes
NextConcurrent ==
    \/ \E body \in {InvalidBody} \cup {Body(d) : d \in PostData} : PostInventoryCall(body)
    \/ \E slot \in 1..MaxPending : PostInventoryResume(slot)
    \/ \E id \in IdParams : DeleteInventory(id)

SpecConcurrent == Init /\ [][NextConcurrent]_vars

\* update requests that interleave at the await of the store's promise, beside the
\* creations of the records they update
NextConcurrentPut ==
    \/ \E body \in {Body(d) : d \in { p \in PromptPostData : p.location = "Fridge" }} :
          PostInventory(body)
    \/ \E id \in {1, MaxId}, body \in {InvalidBody} \cup {Body(d) : d \in PutData} :
          PutInventoryCall(id, body)
    \/ \E slot \in 1..MaxPending : PutInventoryResume(slot)

SpecConcurrentPut == Init /\ [][NextConcurrentPut]_vars

\* every route, each on every path of its handler: the inventory routes on accepted
\* and rejected bodies and on present and absent identities, the model routes on
\* rejected requests and on every outcome of the call
NextResponses ==
    \/ \E location \in {Undefined, Str("Fridge")} : GetInventory(location)
    \/ \E id \in {1} : GetInventoryById(id)
    \/ \E body \in {InvalidBody}
                     \cup {Body(d) : d \in { p \in PromptPostData : p.location = "Fridge" }} :
          PostInventory(body)
    \/ \E id \in {1}, body \in {InvalidBody, Body([quantity |-> Str("5")])} :
          PutInventory(id, body)
    \/ \E id \in {1} : DeleteInventory(id)
    \/ \E imageBase64 \in {Undefined, Num(7), Str("QUJD")} : RecognizeRequest(imageBase64)
    \/ \E slot \in 1..MaxInFlight, outcome \in Outcomes : RecognizeReply(slot, outcome)
    \/ \E ingredients \in {Arr(<<>>), Arr(<<"egg">>)} : RecipeRequest(ingredients, <<>>)
    \/ \E slot \in 1..MaxInFlight, outcome \in Outcomes : RecipeReply(slot, outcome)

SpecResponses == Init /\ [][NextResponses]_vars

----------------------------------------------------------------------------
(* The client: the scan session of Router (App.tsx) *)

\* what Camera captures: the data URL of a screenshot, and a string that is none
ImageData == { "data:image/jpeg;base64,QUJD", "QUJD" }

\* results of recognizeImage that hold items: one item, two items of which one is
\* named as the first up to letter case, one name twice, another name
RecognitionResults ==
    { << [name |-> "egg", quantity |-> "6"] >>,
      << [name |-> "Egg", quantity |-> "2"], [name |-> "milk", quantity |-> "1"] >>,
      << [name |-> "egg", quantity |-> "6"], [name |-> "egg", quantity |-> "12"] >>,
      << [name |-> "cheese", quantity |-> "1"] >> }

\* items.filter(item => !names.has(item.name.toLowerCase())), names being the
\* lowercased names of prev
uniqueNewItems(prev, items) ==
    LET existingNames == { toLowerCase(prev[i].name) : i \in DOMAIN prev }
        IsNew(item) == toLowerCase(item.name) \notin existingNames
    IN  SelectSeq(items, IsNew)

\* Router.handleImageCapture
handleImageCapture(imageData) ==
    /\ Len(capturedImages) < MaxImages
    /\ capturedImages' = Append(capturedImages, imageData)
    /\ UNCHANGED <<currentImageIndex, routerRecognizedItems, sessionItems>>
    /\ UNCHANGED <<page, timer, runs, recognizeCalls, completeCalls>>
    /\ UNCHANGED serverVars

\* Router.handleRecognitionComplete: both updaters append the items of a name that is
\* not in the list they update
handleRecognitionComplete(items) ==
    /\ sessionItems' = sessionItems \o uniqueNewItems(sessionItems, items)
    /\ routerRecognizedItems' =
          routerRecognizedItems \o uniqueNewItems(routerRecognizedItems, items)
    /\ UNCHANGED <<capturedImages, currentImageIndex>>
    /\ UNCHANGED <<page, timer, runs, recognizeCalls, completeCalls>>
    /\ UNCHANGED serverVars

\* Router.handleTakeMorePhotos
handleTakeMorePhotos ==
    /\ currentImageIndex' = Len(capturedImages)
    /\ UNCHANGED <<capturedImages, routerRecognizedItems, sessionItems>>
    /\ UNCHANGED <<page, timer, runs, recognizeCalls, completeCalls>>
    /\ UNCHANGED serverVars

\* Router.resetSession
resetSession ==
    /\ capturedImages' = <<>>
    /\ routerRecognizedItems' = <<>>
    /\ sessionItems' = <<>>
    /\ currentImageIndex' = 0
    /\ UNCHANGED <<page, timer, runs, recognizeCalls, completeCalls>>
    /\ UNCHANGED serverVars

\* the handlers of the scan session, called in any order
NextSession ==
    \/ \E imageData \in ImageData : handleImageCapture(imageData)
    \/ \E items \in RecognitionResults : handleRecognitionComplete(items)
    \/ handleTakeMorePhotos
    \/ resetSession

SpecSession == Init /\ [][NextSession]_vars

----------------------------------------------------------------------------
(* The client: the Processing page and the pages that lead to it *)

NoTimer == [set |-> FALSE]
NoImage == ""

\* <Processing imageData={capturedImages[currentImageIndex] || null}
\*             imageIndex={currentImageIndex} totalImages={capturedImages.length} />
ProcessingProps(images, index) ==
    [ imageData |-> IF index + 1 \in DOMAIN images THEN images[index + 1] ELSE NoImage,
      imageIndex |-> index,
      totalImages |-> Len(images) ]

\* imageData.startsWith('data:image/')
startsWithDataImage(imageData) == imageData \in { "data:image/jpeg;base64,QUJD" }

\* what recognizeImage settles with: it throws (the request failed or was answered
\* with an error), or it returns the items of the response, which may be none
RecognizeImageResults ==
    { [ok |-> FALSE, items |-> <<>>], [ok |-> TRUE, items |-> <<>>],
      [ok |-> TRUE, items |-> << [name |-> "egg", quantity |-> "6"] >>] }

FreeRuns == (1..MaxRuns) \ DOMAIN runs
PutRun(slot, run) == [ s \in DOMAIN runs \cup {slot} |-> IF s = slot THEN run ELSE runs[s] ]
DropRun(slot) == [ s \in DOMAIN runs \ {slot} |-> runs[s] ]

\* the timer of Processing after navigate(to), t being the timer before: leaving
\* /processing unmounts the page, and the cleanup of its effect clears the timer
TimerAfterNavigate(to, t) == IF page = "/processing" /\ to # "/processing" THEN NoTimer ELSE t

\* the effect of Processing, run with these props: without an image it navigates to
\* /camera, else it sets the timer that calls processImage()
EffectPage(props) == IF props.imageData = NoImage THEN "/camera" ELSE "/processing"
EffectTimer(props) ==
    IF props.imageData = NoImage THEN NoTimer ELSE [set |-> TRUE, props |-> props]

\* Home: the camera button calls onStartNewSession() and navigate('/camera')
startNewSession ==
    /\ page = "/"
    /\ capturedImages' = <<>>
    /\ routerRecognizedItems' = <<>>
    /\ sessionItems' = <<>>
    /\ currentImageIndex' = 0
    /\ page' = "/camera"
    /\ UNCHANGED <<timer, runs, recognizeCalls, completeCalls>>
    /\ UNCHANGED serverVars

\* Navigation: the home button calls navigate('/')
goHome ==
    /\ page \in {"/camera", "/results"}
    /\ page' = "/"
    /\ UNCHANGED <<capturedImages, currentImageIndex, routerRecognizedItems, sessionItems>>
    /\ UNCHANGED <<timer, runs, recognizeCalls, completeCalls>>
    /\ UNCHANGED serverVars

\* Results: "Take More Photos" calls onTakeMorePhotos() and navigate('/camera')
takeMorePhotos ==
    /\ page = "/results"
    /\ currentImageIndex' = Len(capturedImages)
    /\ page' = "/camera"
    /\ UNCHANGED <<capturedImages, routerRecognizedItems, sessionItems>>
    /\ UNCHANGED <<timer, runs, recognizeCalls, completeCalls>>
    /\ UNCHANGED serverVars

\* Camera.captureImage: onImageCaptured(imageSrc); navigate('/processing'), which
\* mounts Processing and runs its effect. Taken when no earlier processImage is alive.
captureImage(imageData) ==
    /\ page = "/camera"
    /\ runs = <<>>
    /\ Len(capturedImages) < MaxImages
    /\ capturedImages' = Append(capturedImages, imageData)
    /\ LET props == ProcessingProps(capturedImages', currentImageIndex)
       IN  /\ page' = EffectPage(props)
           /\ timer' = EffectTimer(props)
    /\ recognizeCalls' = 0
    /\ completeCalls' = 0
    /\ UNCHANGED <<currentImageIndex, routerRecognizedItems, sessionItems, runs>>
    /\ UNCHANGED serverVars

\* processImage where an attempt has failed or found no items, t being the timer:
\* with retries < 2 it sets a timer for processImage(retries + 1), else it shows the
\* toast and navigates, to /results when imageIndex > 0 and to /camera otherwise
RetryOrGiveUp(slot, run, t) ==
    IF run.retries < 2
    THEN /\ runs' = PutRun(slot, [run EXCEPT !.at = "setTimeout"])
         /\ timer' = t
         /\ UNCHANGED page
    ELSE LET to == IF run.props.imageIndex > 0 THEN "/results" ELSE "/camera"
         IN  /\ runs' = DropRun(slot)
             /\ page' = to
             /\ timer' = TimerAfterNavigate(to, t)

\* processImage(retries), from its start to the await of recognizeImage(imageData)
AttemptRecognition(slot, run, t) ==
    IF ~startsWithDataImage(run.props.imageData)
    THEN /\ RetryOrGiveUp(slot, run, t)
         /\ UNCHANGED recognizeCalls
    ELSE /\ runs' = PutRun(slot, [run EXCEPT !.at = "recognizeImage"])
         /\ recognizeCalls' = recognizeCalls + 1
         /\ timer' = t
         /\ UNCHANGED page

\* the timer of the effect fires: processImage()
TimerFires ==
    /\ timer.set
    /\ FreeRuns # {}
    /\ recognizeCalls < MaxCalls
    /\ LET slot == CHOOSE s \in FreeRuns : \A o \in FreeRuns : s <= o
       IN  AttemptRecognition(slot, [props |-> timer.props, retries |-> 1, at |-> "start"],
                              NoTimer)
    /\ UNCHANGED <<capturedImages, currentImageIndex, routerRecognizedItems, sessionItems>>
    /\ UNCHANGED completeCalls
    /\ UNCHANGED serverVars

\* the timer of a retry fires: processImage(retries + 1)
RetryFires(slot) ==
    /\ slot \in DOMAIN runs
    /\ runs[slot].at = "setTimeout"
    /\ recognizeCalls < MaxCalls
    /\ AttemptRecognition(slot, [runs[slot] EXCEPT !.retries = @ + 1], timer)
    /\ UNCHANGED <<capturedImages, currentImageIndex, routerRecognizedItems, sessionItems>>
    /\ UNCHANGED completeCalls
    /\ UNCHANGED serverVars

\* processImage from the point recognizeImage settles to its next await or its end.
\* With items it calls onRecognitionComplete(recognizedItems): both lists of Router
\* are set anew, Router renders and hands Processing a new handleRecognitionComplete,
\* so the effect of a mounted Processing, which depends on it, is cleaned up and run
\* again; then processImage awaits addItemsToInventory.
RecognizeImageSettles(slot, result) ==
    /\ slot \in DOMAIN runs
    /\ runs[slot].at = "recognizeImage"
    /\ IF ~result.ok \/ Len(result.items) = 0
       THEN /\ RetryOrGiveUp(slot, runs[slot], timer)
            /\ UNCHANGED <<routerRecognizedItems, sessionItems, completeCalls>>
       ELSE /\ sessionItems' = sessionItems \o uniqueNewItems(sessionItems, result.items)
            /\ routerRecognizedItems' =
                  routerRecognizedItems \o uniqueNewItems(routerRecognizedItems, result.items)
            /\ completeCalls' = completeCalls + 1
            /\ runs' = PutRun(slot, [runs[slot] EXCEPT !.at = "addItemsToInventory"])
            /\ IF page = "/processing"
               THEN LET props == ProcessingProps(capturedImages, currentImageIndex)
                    IN  /\ page' = EffectPage(props)
                        /\ timer' = EffectTimer(props)
               ELSE UNCHANGED <<page, timer>>
    /\ UNCHANGED <<capturedImages, currentImageIndex, recognizeCalls>>
    /\ UNCHANGED serverVars

\* processImage from the point addItemsToInventory settles, fulfilled or rejected (its
\* requests are those of POST /api/inventory above): a toast, then navigate to
\* /results when imageIndex >= totalImages - 1 and to /camera otherwise
AddItemsSettles(slot) ==
    /\ slot \in DOMAIN runs
    /\ runs[slot].at = "addItemsToInventory"
    /\ LET props == runs[slot].props
           to == IF props.imageIndex >= props.totalImages - 1 THEN "/results" ELSE "/camera"
       IN  /\ page' = to
           /\ timer' = TimerAfterNavigate(to, timer)
    /\ runs' = DropRun(slot)
    /\ UNCHANGED <<capturedImages, currentImageIndex, routerRecognizedItems, sessionItems>>
    /\ UNCHANGED <<recognizeCalls, completeCalls>>
    /\ UNCHANGED serverVars

\* a scan session: the pages that lead to Processing, and Processing
NextProcessing ==
    \/ startNewSession
    \/ goHome
    \/ takeMorePhotos
    \/ \E imageData \in ImageData : captureImage(imageData)
    \/ TimerFires
    \/ \E slot \in 1..MaxRuns : RetryFires(slot)
    \/ \E slot \in 1..MaxRuns, result \in RecognizeImageResults :
          RecognizeImageSettles(slot, result)
    \/ \E slot \in 1..MaxRuns : AddItemsSettles(slot)

SpecProcessing == Init /\ [][NextProcessing]_vars

\* the timers of the event loop fire and the requests of the client settle
SpecProcessingFair ==
    /\ SpecProcessing
    /\ WF_vars(TimerFires)
    /\ WF_vars(\E slot \in 1..MaxRuns : RetryFires(slot))
    /\ WF_vars(\E slot \in 1..MaxRuns, result \in RecognizeImageResults :
                  RecognizeImageSettles(slot, result))
    /\ WF_vars(\E slot \in 1..MaxRuns : AddItemsSettles(slot))

----------------------------------------------------------------------------
(* Properties *)

Range(f) == { f[i] : i \in DOMAIN f }

PostRoute == "POST /api/inventory"
PutRoute == "PUT /api/inventory/:id"
DeleteRoute == "DELETE /api/inventory/:id"
RecognizeRoute == "POST /api/recognize"
RecipeRoute == "POST /api/recipe-suggestions"

\* the decimal strings of the quantities that occur, and the strings of their sums
NumberOf(s) == CASE s = "5" -> 5 [] s = "6" -> 6 [] OTHER -> 0
StringOf(n) == CASE n = 10 -> "10" [] n = 11 -> "11" [] n = 12 -> "12" [] OTHER -> "?"
NumericSum(q1, q2) == Str(StringOf(NumberOf(q1.s) + NumberOf(q2.s)))

\* the keys of the records of inv with this very name and location
RecordsFor(inv, name, location) ==
    { k \in DOMAIN inv : inv[k].name = name /\ inv[k].location = location }

\* the keys of the records of inv whose name is this one up to letter case
RecordsNamed(inv, name) ==
    { k \in DOMAIN inv : toLowerCase(inv[k].name) = toLowerCase(name) }

\* the step answers a POST /api/inventory whose body the schema accepted
PostStep == last'.route = PostRoute /\ last'.req.valid

\* C1: when the store holds one record (n, L, q1) and a POST /api/inventory arrives
\* with the same n and L and a quantity q2, the store holds exactly one record for
\* (n, L) afterwards, its quantity is the string of the sum q1 + q2, and the response
\* carries quantityUpdated = true and previousQuantity = q1.
C1_SameNameAndLocationMerges ==
    [][ (PostStep /\ "quantity" \in DOMAIN last'.req.data) =>
          LET data == last'.req.data
          IN  \A k \in DOMAIN inventory :
                ( /\ RecordsFor(inventory, data.name, data.location) = {k}
                  /\ inventory[k].quantity.t = "string" )
                => /\ RecordsFor(inventory', data.name, data.location) = {k}
                   /\ inventory'[k].quantity = NumericSum(inventory[k].quantity, data.quantity)
                   /\ "quantityUpdated" \in DOMAIN last'.body
                   /\ last'.body.quantityUpdated = TRUE
                   /\ "previousQuantity" \in DOMAIN last'.body
                   /\ last'.body.previousQuantity = inventory[k].quantity
      ]_vars

\* C2: a POST /api/inventory whose name matches an existing record at another location
\* never merges: that record is left as it was, the new record gets an identity no
\* record had before, and the store then holds two distinct records of that name.
C2_OtherLocationNeverMerges ==
    [][ PostStep =>
          LET data == last'.req.data
              new == last'.body.id
          IN  \A k \in RecordsNamed(inventory, data.name) :
                inventory[k].location # data.location
                => /\ k \in DOMAIN inventory'
                   /\ inventory'[k] = inventory[k]
                   /\ new \notin DOMAIN inventory
                   /\ new \notin Range(created)
                   /\ new \in DOMAIN inventory'
                   /\ inventory'[new].name = data.name
                   /\ inventory'[new].location = data.location
                   /\ {k, new} \subseteq RecordsNamed(inventory', data.name)
                   /\ k # new
      ]_vars

\* C2, its case: the POST answered last created a record while a record of the same
\* name at another location stands beside it
C2_Witness ==
    /\ last.route = PostRoute
    /\ last.status = 201
    /\ \E k \in RecordsNamed(inventory, last.body.name) :
          /\ k # last.body.id
          /\ inventory[k].location # last.body.location

\* C3: reconciliation matches names up to letter case: when the lookup by name finds a
\* record at the location of the POST, however the two names are cased, no record is
\* added, the record's quantity becomes the sum ("6" and "6" give "12"), and the
\* response carries quantityUpdated = true and previousQuantity.
C3_CaseInsensitiveReconciliation ==
    [][ (PostStep /\ "quantity" \in DOMAIN last'.req.data) =>
          LET data == last'.req.data
              existing == getInventoryItemByName(inventory, data.name)
          IN  ( /\ existing # NoItem
                /\ existing.location = data.location
                /\ existing.quantity.t = "string" )
              => /\ DOMAIN inventory' = DOMAIN inventory
                 /\ inventory'[existing.id].quantity =
                        NumericSum(existing.quantity, data.quantity)
                 /\ "quantityUpdated" \in DOMAIN last'.body
                 /\ last'.body.quantityUpdated = TRUE
                 /\ "previousQuantity" \in DOMAIN last'.body
                 /\ last'.body.previousQuantity = existing.quantity
      ]_vars

\* the step answers a DELETE /api/inventory/:id
DeleteStep == last'.route = DeleteRoute

\* delete(id) on an identity that is not in the store returns false, answers 404 (it
\* does not throw) and leaves the store unchanged
DeleteOfAbsent ==
    (DeleteStep /\ last'.req.id \notin DOMAIN inventory)
    => /\ last'.result = FALSE
       /\ last'.status = 404
       /\ inventory' = inventory

\* C4 as stated: an identity delete was ever called with is absent from the store, and
\* stays absent after any later creates, updates and deletes; delete of an identity
\* that is not in the store returns false and leaves the store unchanged.
C4_DeletedStaysAbsent ==
    [][ /\ \A id \in deleted' : getInventoryItemById(inventory', id) = NoItem
        /\ DeleteOfAbsent
      ]_vars

\* C4, amended: right after delete(id), getById(id) is absent; an identity that was
\* assigned and is absent stays absent whatever comes later (an identity that was not
\* yet assigned when delete was called is given to a later create); delete of an
\* identity that is not in the store returns false and leaves the store unchanged.
C4_AssignedDeletedStaysAbsent ==
    [][ /\ DeleteStep => getInventoryItemById(inventory', last'.req.id) = NoItem
        /\ \A id \in Range(created) :
              id \notin DOMAIN inventory => getInventoryItemById(inventory', id) = NoItem
        /\ DeleteOfAbsent
      ]_vars

\* C4, its case: a record was created after the delete of an identity assigned
\* before, and that identity is absent
C4_Witness ==
    /\ last.route = PostRoute
    /\ last.status = 201
    /\ \E id \in deleted \cap Range(created) :
          /\ id < last.body.id
          /\ getInventoryItemById(inventory, id) = NoItem

\* the step answers a PUT /api/inventory/:id whose body the schema accepted
PutStep == last'.route = PutRoute /\ last'.req.body.valid

\* C5: update(id, partial) overwrites exactly the fields present in the payload (null
\* for a nullish optional field) and leaves every other field of the record, and every
\* other record, unchanged; on an absent id it changes nothing.
C5_UpdateOverwritesPresentFieldsOnly ==
    [][ PutStep =>
          LET id == last'.req.id
              data == last'.req.body.data
          IN  /\ DOMAIN inventory' = DOMAIN inventory
              /\ \A k \in DOMAIN inventory \ {id} : inventory'[k] = inventory[k]
              /\ id \in DOMAIN inventory =>
                    /\ DOMAIN inventory'[id] = DOMAIN inventory[id]
                    /\ \A f \in DOMAIN inventory[id] \ DOMAIN data :
                          inventory'[id][f] = inventory[id][f]
                    /\ \A f \in DOMAIN inventory[id] \cap DOMAIN data :
                          inventory'[id][f] =
                              IF f \in {"name", "location"} THEN data[f]
                              ELSE IF data[f] \in {Null, Undefined} THEN Null
                              ELSE data[f]
                    /\ last'.status = 200
                    /\ last'.body = inventory'[id]
              /\ id \notin DOMAIN inventory => last'.status = 404
      ]_vars

\* C5, its case: a payload of only {quantity: "5"} was applied to a record that has a
\* unit, and the record has the new quantity
C5_Witness ==
    /\ last.route = PutRoute
    /\ last.status = 200
    /\ last.req.body.data = [quantity |-> Str("5")]
    /\ inventory[last.req.id].quantity = Str("5")
    /\ inventory[last.req.id].unit = Str("pcs")
    /\ inventory[last.req.id].name = "egg"

\* imageBase64 is missing or empty
MissingOrEmpty(imageBase64) == imageBase64 \in {Undefined, Str("")}

\* C6: a POST /api/recognize whose imageBase64 is missing or empty is answered 400, and
\* the external model is never called for it: no such request waits for the model, and
\* none was answered from a reply of the model.
C6_NoImageIs400WithoutCall ==
    /\ \A slot \in DOMAIN inflight :
          inflight[slot].route = RecognizeRoute
          => ~MissingOrEmpty(inflight[slot].req.imageBase64)
    /\ (last.route = RecognizeRoute /\ MissingOrEmpty(last.req.imageBase64))
       => /\ last.status = 400
          /\ "outcome" \notin DOMAIN last

\* C6, its case: a request with an empty image was answered
C6_Witness ==
    /\ last.route = RecognizeRoute
    /\ last.req.imageBase64 = Str("")
    /\ last.status = 400

\* the reply of a call that succeeded holds no JSON array of objects, or the text
\* extracted from it fails to parse
NoUsableJson(outcome) ==
    /\ outcome.ok
    /\ \/ outcome.kind # "text"
       \/ RegexMatch(outcome.text) = NoMatch
       \/ ~JSONparse(RegexMatch(outcome.text)).ok

\* C7: when the call of POST /api/recognize succeeds but the reply holds no JSON array
\* of objects, or the extracted text fails to parse, the response is 200 with exactly
\* one item: name "unidentified item", confidence 50, quantity "1", unit "".
C7_UnparsableReplyIsFallback ==
    (last.route = RecognizeRoute /\ "outcome" \in DOMAIN last /\ NoUsableJson(last.outcome))
    => /\ last.status = 200
       /\ last.body = [ items |-> << [ name |-> Str("unidentified item"),
                                       confidence |-> Num(50),
                                       quantity |-> Str("1"),
                                       unit |-> Str("") ] >> ]

\* C7, its case: a reply whose text holds a bracketed match that is no JSON was answered
C7_Witness ==
    /\ last.route = RecognizeRoute
    /\ "outcome" \in DOMAIN last
    /\ last.outcome.kind = "text"
    /\ RegexMatch(last.outcome.text) # NoMatch
    /\ ~JSONparse(RegexMatch(last.outcome.text)).ok
    /\ last.status = 200

\* ingredients is absent, not a list, or an empty list
NoIngredients(ingredients) ==
    \/ ingredients = Undefined
    \/ ingredients.t # "array"
    \/ Len(ingredients.a) = 0

\* C8: a POST /api/recipe-suggestions whose ingredients field is absent, not a list or
\* an empty list is answered 400, and neither the external model nor the store is
\* consulted for it.
C8_NoIngredientsIs400WithoutCalls ==
    /\ \A slot \in DOMAIN inflight :
          inflight[slot].route = RecipeRoute
          => ~NoIngredients(inflight[slot].req.ingredients)
    /\ (last.route = RecipeRoute /\ NoIngredients(last.req.ingredients))
       => /\ last.status = 400
          /\ last.storeCalls = {}
          /\ "outcome" \notin DOMAIN last

\* C8, its case: a request with an empty list of ingredients was answered
C8_Witness ==
    /\ last.route = RecipeRoute
    /\ last.req.ingredients = Arr(<<>>)
    /\ last.status = 400

\* the ingredient names the prompt text holds
PromptNames(sent) == { sent.inventory[i].name : i \in DOMAIN sent.inventory }

\* C9: when a POST /api/recipe-suggestions supplies more than one focus ingredient, the
\* prompt sent to the external model names every one of them and requires each recipe
\* to feature at least one of them.
C9_PromptNamesEveryFocusIngredient ==
    \A slot \in DOMAIN inflight :
        (inflight[slot].route = RecipeRoute /\ Len(inflight[slot].req.focusIngredient) > 1)
        => /\ Range(inflight[slot].req.focusIngredient) \subseteq PromptNames(inflight[slot].sent)
           /\ \E i \in inflight[slot].sent.instructions :
                 i = "each recipe features at least one focus ingredient"

\* C10: every record of the store has an identity of its own, identities are assigned
\* in strictly increasing order of creation, and an identity once assigned is never
\* assigned again, also after its record was deleted.
C10_IdentitiesDistinctAndIncreasing ==
    /\ \A k \in DOMAIN inventory : inventory[k].id = k
    /\ \A j, k \in DOMAIN inventory : j # k => inventory[j].id # inventory[k].id
    /\ \A i, j \in DOMAIN created : i < j => created[i] < created[j]
    /\ \A k \in DOMAIN inventory : inventory[k].id \in Range(created)
    /\ \A i \in DOMAIN created : created[i] < inventoryCurrentId

\* C10, its case: the first record was deleted, and the record the POST answered last
\* created after that stands in the store under a larger identity
C10_Witness ==
    /\ last.route = PostRoute
    /\ last.status = 201
    /\ Len(created) = 2
    /\ last.body.id = created[2]
    /\ created[1] \in deleted
    /\ created[1] \notin DOMAIN inventory
    /\ created[2] \in DOMAIN inventory
    /\ created[2] > created[1]

\* the step calls createInventoryItem
CreateCallStep == Len(created') = Len(created) + 1

\* C11: in every interleaving of creation requests at their await points, a creation
\* is assigned an identity that no creation was assigned before, also none of a
\* creation still in flight, and it leaves every record that is in the store as it is.
C11_ConcurrentCreatesGetDistinctIds ==
    [][ CreateCallStep =>
          LET new == created'[Len(created')]
          IN  /\ new \notin Range(created)
              /\ new \notin DOMAIN inventory
              /\ \A k \in DOMAIN inventory :
                    k \in DOMAIN inventory' /\ inventory'[k] = inventory[k]
              /\ \A slot \in DOMAIN inflight :
                    inflight[slot].route = PostRoute => inflight[slot].item.id # new
              /\ \E slot \in DOMAIN inflight' \ DOMAIN inflight :
                    /\ inflight'[slot].item.id = new
                    /\ inventory'[new] = inflight'[slot].item
      ]_vars

\* C11, its case: two creation requests are suspended together, and the records of
\* both are in the store
C11_Witness ==
    \E s1, s2 \in DOMAIN inflight :
        /\ s1 # s2
        /\ inflight[s1].route = PostRoute
        /\ inflight[s2].route = PostRoute
        /\ {inflight[s1].item.id, inflight[s2].item.id} \subseteq DOMAIN inventory
        /\ inventory[inflight[s1].item.id] = inflight[s1].item
        /\ inventory[inflight[s2].item.id] = inflight[s2].item

\* C12: two POST /api/inventory requests for the same name and location that are in
\* flight together cannot race: the store holds exactly one record for that name and
\* location, and (nothing stored before, nothing deleted) its quantity is the sum of
\* the two incoming quantities.
C12_ConcurrentSameItemIsOneRecord ==
    \A s1, s2 \in DOMAIN inflight :
        ( /\ s1 # s2
          /\ inflight[s1].route = PostRoute
          /\ inflight[s2].route = PostRoute
          /\ inflight[s1].req.data.name = inflight[s2].req.data.name
          /\ inflight[s1].req.data.location = inflight[s2].req.data.location
          /\ "quantity" \in DOMAIN inflight[s1].req.data
          /\ "quantity" \in DOMAIN inflight[s2].req.data
          /\ deleted = {} )
        => LET data == inflight[s1].req.data
               records == RecordsFor(inventory, data.name, data.location)
           IN  /\ Cardinality(records) = 1
               /\ Len(created) = 2 =>
                     \A k \in records :
                         inventory[k].quantity =
                             NumericSum(data.quantity, inflight[s2].req.data.quantity)

\* C13: a valid POST /api/inventory answers 201 with the created item exactly when a
\* new record is created, and 200 with the updated item, quantityUpdated = true and
\* previousQuantity, exactly when it is merged into the record the lookup by name
\* finds at the same location.
C13_StatusTellsCreatedFromMerged ==
    [][ PostStep =>
          LET data == last'.req.data
              existing == getInventoryItemByName(inventory, data.name)
              merged == existing # NoItem /\ existing.location = data.location
          IN  IF merged
              THEN /\ last'.status = 200
                   /\ DOMAIN inventory' = DOMAIN inventory
                   /\ last'.body.id = existing.id
                   /\ "quantityUpdated" \in DOMAIN last'.body
                   /\ last'.body.quantityUpdated = TRUE
                   /\ "previousQuantity" \in DOMAIN last'.body
              ELSE /\ last'.status = 201
                   /\ last'.body.id \notin DOMAIN inventory
                   /\ DOMAIN inventory' = DOMAIN inventory \cup {last'.body.id}
                   /\ inventory'[last'.body.id] = last'.body
                   /\ "quantityUpdated" \notin DOMAIN last'.body
      ]_vars

\* the step answers a POST or a PUT whose body the schema rejected
InvalidBodyStep ==
    \/ last'.route = PostRoute /\ ~last'.req.valid
    \/ last'.route = PutRoute /\ ~last'.req.body.valid

\* C14: a POST /api/inventory or PUT /api/inventory/:id whose body fails validation is
\* answered 400 and leaves the store as it is: no record is created or modified and
\* the identity counter does not advance.
C14_InvalidBodyIs400AndNoChange ==
    [][ InvalidBodyStep =>
          /\ last'.status = 400
          /\ last'.storeCalls = {}
          /\ inventory' = inventory
          /\ inventoryCurrentId' = inventoryCurrentId
          /\ created' = created
      ]_vars

\* C14, its case: a PUT with a rejected body was answered while the record it names
\* is in the store, and a create is still possible
C14_Witness ==
    /\ last.route = PutRoute
    /\ ~last.req.body.valid
    /\ last.status = 400
    /\ last.req.id \in DOMAIN inventory
    /\ inventoryCurrentId <= MaxId

GetByIdRoute == "GET /api/inventory/:id"

\* DELETE on an identity that is in the store answers 204 and removes exactly that
\* record, leaving all other records as they are
DeleteOfPresent ==
    (DeleteStep /\ last'.req.id \in DOMAIN inventory)
    => /\ last'.status = 204
       /\ DOMAIN inventory' = DOMAIN inventory \ {last'.req.id}
       /\ \A k \in DOMAIN inventory' : inventory'[k] = inventory[k]

\* C15 as stated: GET, PUT and DELETE on /api/inventory/:id with an identity that is
\* not in the store each answer 404 and leave the store as it is; DELETE on an
\* identity in the store answers 204 and removes exactly that record.
C15_AbsentIdIs404 ==
    [][ /\ ( /\ last'.route \in {GetByIdRoute, PutRoute, DeleteRoute}
              /\ last'.req.id \notin DOMAIN inventory )
            => /\ last'.status = 404
               /\ inventory' = inventory
        /\ DeleteOfPresent
      ]_vars

\* C15, amended: the same, for a PUT only when its body passes validation (the body
\* is validated before the identity is looked up: a rejected body is answered 400
\* also on an identity that is not in the store; the store is unchanged either way).
C15_AbsentIdIs404OnValidBody ==
    [][ /\ ( /\ last'.route \in {GetByIdRoute, PutRoute, DeleteRoute}
              /\ last'.req.id \notin DOMAIN inventory )
            => /\ inventory' = inventory
               /\ last'.status =
                     IF last'.route = PutRoute /\ ~last'.req.body.valid THEN 400 ELSE 404
        /\ DeleteOfPresent
      ]_vars

\* C15, its case: a PUT with an accepted body on an identity that is not in the store
\* was answered 404 while the store holds another record
C15_Witness ==
    /\ last.route = PutRoute
    /\ last.req.body.valid
    /\ last.status = 404
    /\ last.req.id \notin DOMAIN inventory
    /\ inventory # <<>>

\* C16: when the call to the external vision model fails, POST /api/recognize answers
\* 500 with the fixed message "Failed to analyze image": the body is the same for
\* every error and holds no item.
C16_CallFailureIs500Generic ==
    (last.route = RecognizeRoute /\ "outcome" \in DOMAIN last /\ ~last.outcome.ok)
    => /\ last.status = 500
       /\ last.body = [message |-> "Failed to analyze image"]
       /\ "items" \notin DOMAIN last.body

\* C16, its case: a request whose call was rejected with an error of the API was
\* answered
C16_Witness ==
    /\ last.route = RecognizeRoute
    /\ "outcome" \in DOMAIN last
    /\ ~last.outcome.ok
    /\ last.outcome.error = "401 authentication_error"
    /\ last.status = 500

\* C17: when the call of POST /api/recipe-suggestions succeeds but the reply holds no
\* extractable JSON array, or the extracted text fails to parse, the response is 500
\* with the error message and never a list of recipes; a failure of the call itself
\* is 500 as well.
C17_RecipeFailureIs500 ==
    ( /\ last.route = RecipeRoute
      /\ "outcome" \in DOMAIN last
      /\ (~last.outcome.ok \/ NoUsableJson(last.outcome)) )
    => /\ last.status = 500
       /\ last.body = [message |-> "Failed to generate recipe suggestions"]

\* C17, its case: a reply whose text holds a bracketed match that is no JSON was
\* answered 500
C17_Witness ==
    /\ last.route = RecipeRoute
    /\ "outcome" \in DOMAIN last
    /\ last.outcome.kind = "text"
    /\ RegexMatch(last.outcome.text) # NoMatch
    /\ ~JSONparse(RegexMatch(last.outcome.text)).ok
    /\ last.status = 500

\* the array JSON.parse returns for a reply, when the inner try runs to its end: the
\* text holds a match, the match parses, and every element has a string name
ParsedArray(outcome) == JSONparse(RegexMatch(outcome.text)).value

ParsedAndMapped(outcome) ==
    /\ outcome.ok
    /\ outcome.kind = "text"
    /\ RegexMatch(outcome.text) # NoMatch
    /\ JSONparse(RegexMatch(outcome.text)).ok
    /\ \A i \in DOMAIN ParsedArray(outcome) :
          /\ "name" \in DOMAIN ParsedArray(outcome)[i]
          /\ ParsedArray(outcome)[i].name.t = "string"

\* the model left the field out: it is absent, null or empty
Omitted(item, f) == f \notin DOMAIN item \/ item[f] \in {Null, Str("")}

\* C18: for every recognition reply that is parsed and mapped, the items of the
\* response are as many as the parsed array's and in its order, and each has its name
\* lowercased, the model's quantity or "1" when omitted, and the model's unit or ""
\* when omitted.
C18_ItemsNormalised ==
    (last.route = RecognizeRoute /\ "outcome" \in DOMAIN last /\ ParsedAndMapped(last.outcome))
    => /\ last.status = 200
       /\ Len(last.body.items) = Len(ParsedArray(last.outcome))
       /\ \A i \in DOMAIN ParsedArray(last.outcome) :
             LET item == ParsedArray(last.outcome)[i]
                 sent == last.body.items[i]
             IN  /\ sent.name = Str(toLowerCase(item.name.s))
                 /\ toLowerCase(sent.name.s) = sent.name.s
                 /\ sent.quantity = IF Omitted(item, "quantity") THEN Str("1")
                                    ELSE item.quantity
                 /\ sent.unit = IF Omitted(item, "unit") THEN Str("") ELSE item.unit

\* C18, its case: a reply of two items, the second without quantity and unit, was
\* answered with both items
C18_Witness ==
    /\ last.route = RecognizeRoute
    /\ "outcome" \in DOMAIN last
    /\ ParsedAndMapped(last.outcome)
    /\ Len(ParsedArray(last.outcome)) = 2
    /\ "quantity" \notin DOMAIN ParsedArray(last.outcome)[2]
    /\ ParsedArray(last.outcome)[1].name = Str("Egg")
    /\ Len(last.body.items) = 2

\* the payload holds only the characters of base64 (A-Z, a-z, 0-9, +, /, =), on the
\* payloads of the model
IsBase64(s) == s \in {"", "QUJD"}

\* C19: POST /api/recognize validates, after stripping an optional data-URL prefix,
\* that the payload holds only base64 characters: a payload with any other character
\* is answered 400 and the external model is not called for it.
C19_MalformedImageIs400WithoutCall ==
    /\ \A slot \in DOMAIN inflight :
          inflight[slot].route = RecognizeRoute => IsBase64(inflight[slot].sent.data)
    /\ ( /\ last.route = RecognizeRoute
          /\ last.req.imageBase64.t = "string"
          /\ ~IsBase64(StripDataUrl(last.req.imageBase64.s)) )
       => /\ last.status = 400
          /\ "outcome" \notin DOMAIN last

\* the ingredients lists with which a request is sent on to the model
AcceptedIngredients == { i \in IngredientsParams : i.t = "array" /\ Len(i.a) > 0 }

\* C20: the inventory the recipe prompt states is determined by the store's contents
\* at the time the request is handled alone: it lists every stored item, in the
\* store's order, under its lowercased name with its quantity and unit ("1" for an
\* item without a quantity), and a request against the same store with any other
\* non-empty ingredients list sends the same list.
C20_PromptInventoryFromStoreOnly ==
    [][ \A slot \in DOMAIN inflight' \ DOMAIN inflight :
          inflight'[slot].route = RecipeRoute =>
            LET items == getInventoryItems(inventory)
                sent == inflight'[slot].sent.inventory
            IN  /\ Len(sent) = Cardinality(DOMAIN inventory)
                /\ \A i \in DOMAIN items :
                      /\ sent[i].name = toLowerCase(items[i].name)
                      /\ sent[i].quantityStr =
                            IF items[i].quantity = Null THEN <<"1">>
                            ELSE IF items[i].unit = Null THEN <<items[i].quantity.s>>
                            ELSE <<items[i].quantity.s, items[i].unit.s>>
                /\ \A ingredients \in AcceptedIngredients, focus \in FocusParams :
                      RecipePrompt([ingredients |-> ingredients, focusIngredient |-> focus],
                                   items).inventory = sent
      ]_vars

\* C20, its case: a request that names an ingredient the store does not hold waits
\* for the model, and the list sent is the two records of the store
C20_Witness ==
    \E slot \in DOMAIN inflight :
        /\ inflight[slot].route = RecipeRoute
        /\ inflight[slot].req.ingredients = Arr(<<"milk", "egg">>)
        /\ Cardinality(DOMAIN inventory) = 2
        /\ Len(inflight[slot].sent.inventory) = 2
        /\ \A i \in 1..2 : inflight[slot].sent.inventory[i].name = "egg"

\* C21: the identity and the addedDate of a record are those assigned at its
\* creation (the counter and the clock of that moment) for as long as the record is in
\* the store: no update, and no later POST, changes them, and the response of an
\* update carries them unchanged.
C21_IdAndAddedDateImmutable ==
    [][ /\ \A k \in DOMAIN inventory \cap DOMAIN inventory' :
              /\ inventory'[k].id = inventory[k].id
              /\ inventory'[k].addedDate = inventory[k].addedDate
        /\ \A k \in DOMAIN inventory' \ DOMAIN inventory :
              /\ inventory'[k].id = inventoryCurrentId
              /\ inventory'[k].addedDate = clock
        /\ (PutStep /\ last'.status = 200) =>
              /\ last'.body.id = inventory[last'.req.id].id
              /\ last'.body.addedDate = inventory[last'.req.id].addedDate
      ]_vars

\* C21, its case: an update that renamed and moved the second record was answered,
\* and the record has the identity and the date of its creation
C21_Witness ==
    /\ last.route = PutRoute
    /\ last.status = 200
    /\ last.req.id = 2
    /\ "name" \in DOMAIN last.req.body.data
    /\ inventory[2].name = "milk"
    /\ inventory[2].id = 2
    /\ inventory[2].addedDate = 1

\* the string denotes a non-negative number, on the quantities that occur
DenotesNonNegative(s) == s \in {"1", "5", "6", "10", "11", "12"}

ModelRouteStep ==
    \/ inflight' # inflight
    \/ last'.route \in {RecognizeRoute, RecipeRoute}

\* C23: handling a POST /api/recognize or POST /api/recipe-suggestions never changes
\* the store, on any path; and while such a request waits for the model, a creation
\* and a delete of a stored record can be handled, and when one is, it takes effect
\* and leaves the waiting request as it is.
C23_ModelRoutesLeaveStoreAlone ==
    [][ /\ ModelRouteStep =>
              UNCHANGED <<inventory, inventoryCurrentId, clock, created, deleted>>
        /\ inflight # <<>> =>
              /\ inventoryCurrentId <= MaxId =>
                    \A d \in PromptPostData : ENABLED PostInventory(Body(d))
              /\ \A id \in IdParams : ENABLED DeleteInventory(id)
        /\ (inflight # <<>> /\ last'.route = PostRoute /\ last' # last) =>
              /\ inflight' = inflight
              /\ last'.status = 201
              /\ last'.body.id \notin DOMAIN inventory
              /\ inventory'[last'.body.id] = last'.body
        /\ (inflight # <<>> /\ last'.route = DeleteRoute /\ last' # last) =>
              /\ inflight' = inflight
              /\ last'.req.id \notin DOMAIN inventory'
      ]_vars

\* C23, its case: a record was created while a request waited for the model, and the
\* request still waits
C23_Witness ==
    /\ last.route = PostRoute
    /\ last.status = 201
    /\ \E slot \in DOMAIN inflight :
          /\ inflight[slot].route = RecipeRoute
          /\ Len(inflight[slot].sent.inventory) < Cardinality(DOMAIN inventory)
          /\ last.body.id \in DOMAIN inventory

\* the record after the payload is merged into it: the payload's fields (null for a
\* nullish optional one) over the record's
Merged(record, data) ==
    [f \in DOMAIN record |->
        IF f \notin DOMAIN data THEN record[f]
        ELSE IF f \in {"name", "location"} THEN data[f]
        ELSE IF data[f] \in {Null, Undefined} THEN Null
        ELSE data[f]]

\* C24: an update of a record is not interleaved with another request: the call merges
\* the payload into the record as the store holds it at that moment, the handler
\* that resumes after its await writes nothing, and so of two PUT requests in flight
\* together on one identity with disjoint fields, both have effect in the record.
C24_NoLostUpdate ==
    [][ /\ \A slot \in DOMAIN inflight' \ DOMAIN inflight :
              (inflight'[slot].route = PutRoute /\ inflight'[slot].req.id \in DOMAIN inventory)
              => /\ inventory'[inflight'[slot].req.id] =
                       Merged(inventory[inflight'[slot].req.id],
                              inflight'[slot].req.body.data)
                 /\ inflight'[slot].item = inventory'[inflight'[slot].req.id]
        /\ \A slot \in DOMAIN inflight \ DOMAIN inflight' : inventory' = inventory
        /\ \A s1, s2 \in DOMAIN inflight' :
              ( /\ s1 # s2
                /\ inflight'[s1].route = PutRoute
                /\ inflight'[s2].route = PutRoute
                /\ inflight'[s1].req.id = inflight'[s2].req.id
                /\ inflight'[s1].item # NoItem
                /\ inflight'[s2].item # NoItem
                /\ DOMAIN inflight'[s1].req.body.data
                      \cap DOMAIN inflight'[s2].req.body.data = {} )
              => inventory'[inflight'[s1].req.id] =
                    Merged(Merged(inventory'[inflight'[s1].req.id],
                                  inflight'[s1].req.body.data),
                           inflight'[s2].req.body.data)
      ]_vars

\* C24, its case: two PUT requests with disjoint fields are suspended together on one
\* identity, and the record has the quantity of the one and the name of the other
C24_Witness ==
    \E s1, s2 \in DOMAIN inflight :
        /\ inflight[s1].route = PutRoute
        /\ inflight[s2].route = PutRoute
        /\ inflight[s1].req.id = inflight[s2].req.id
        /\ inflight[s1].req.id \in DOMAIN inventory
        /\ inflight[s1].req.body.data = [quantity |-> Str("5")]
        /\ "name" \in DOMAIN inflight[s2].req.body.data
        /\ inventory[inflight[s1].req.id].quantity = Str("5")
        /\ inventory[inflight[s1].req.id].name = "milk"

\* the quantity of an existing record as the reconciliation reads it: 0 when it is
\* missing or does not parse as a number
ExistingQuantityRead(q) == IF q.t = "string" THEN NumberOf(q.s) ELSE 0

\* the quantity of an incoming item as the reconciliation reads it: 1 when none was
\* specified, 0 when the string does not parse
IncomingQuantityRead(data) ==
    IF "quantity" \in DOMAIN data /\ data.quantity.t = "string"
    THEN NumberOf(data.quantity.s) ELSE 1

\* the string form of the sums that occur
SumString(n) ==
    CASE n = 0 -> "0" [] n = 1 -> "1" [] n = 5 -> "5" [] n = 6 -> "6" [] n = 7 -> "7"
      [] n = 10 -> "10" [] n = 11 -> "11" [] n = 12 -> "12" [] OTHER -> "?"

\* C25: when a POST /api/inventory is merged into the one record of its name and
\* location, that record's quantity becomes the sum of the existing quantity, read as
\* 0 if missing or unparsable, and the incoming one, read as 1 if none was specified,
\* and the request is answered without a failure; when no record matches, the
\* incoming quantity string is stored as given.
C25_MergeReadsQuantitiesLeniently ==
    [][ PostStep =>
          LET data == last'.req.data
              same == RecordsFor(inventory, data.name, data.location)
          IN  /\ last'.status \in {200, 201}
              /\ \A k \in same :
                    same = {k}
                    => /\ RecordsFor(inventory', data.name, data.location) = {k}
                       /\ inventory'[k].quantity =
                              Str(SumString(ExistingQuantityRead(inventory[k].quantity)
                                            + IncomingQuantityRead(data)))
              /\ ( /\ RecordsNamed(inventory, data.name) = {}
                   /\ "quantity" \in DOMAIN data
                   /\ data.quantity # Str("") )
                 => inventory'[last'.body.id].quantity = data.quantity
      ]_vars

\* C26: in every store state that POST /api/inventory and DELETE /api/inventory/:id
\* requests reach, no two records share their location and, up to letter case, their
\* name.
C26_NameAndLocationUnique ==
    \A k1, k2 \in DOMAIN inventory :
        ( /\ toLowerCase(inventory[k1].name) = toLowerCase(inventory[k2].name)
          /\ inventory[k1].location = inventory[k2].location )
        => k1 = k2

\* C27: every request that a handler has finished with was sent exactly one response,
\* the one the handler answered with: on no path does a handler end without a
\* response, and on none does a catch write a second one after the try wrote one.
C27_ExactlyOneResponse ==
    last.route # "none" => last.written = <<last.status>>

\* C27, its case: a POST /api/recognize went through the inner try, which threw, and
\* the inner catch, and was sent the one response of the fallback
C27_Witness ==
    /\ last.route = RecognizeRoute
    /\ "outcome" \in DOMAIN last
    /\ last.outcome.ok
    /\ RecognizeTryThrows(last.outcome)
    /\ last.written = <<200>>
    /\ last.body = [items |-> fallbackItems]

\* the reply holds a JSON array that parses and has an element without a string name
ParsedWithNamelessElement(outcome) ==
    /\ outcome.kind = "text"
    /\ RegexMatch(outcome.text) # NoMatch
    /\ JSONparse(RegexMatch(outcome.text)).ok
    /\ \E i \in DOMAIN JSONparse(RegexMatch(outcome.text)).value :
          LET item == JSONparse(RegexMatch(outcome.text)).value[i]
          IN  "name" \notin DOMAIN item \/ item.name.t # "string"

\* C28: when the reply of the model to POST /api/recognize holds a JSON array that
\* parses but has an element without a string name, the response is not 500: it is
\* 200 with the single fallback item "unidentified item", and no other element of
\* the array is sent.
C28_NamelessElementIsFallback ==
    ( /\ last.route = RecognizeRoute
      /\ "outcome" \in DOMAIN last
      /\ ParsedWithNamelessElement(last.outcome) )
    => /\ last.status = 200
       /\ Len(last.body.items) = 1
       /\ last.body.items[1] = [ name |-> Str("unidentified item"), confidence |-> Num(50),
                                 quantity |-> Str("1"), unit |-> Str("") ]

\* C28, its case: a reply of two elements, the first named "Egg" and the second
\* without a name, was answered
C28_Witness ==
    /\ last.route = RecognizeRoute
    /\ "outcome" \in DOMAIN last
    /\ ParsedWithNamelessElement(last.outcome)
    /\ Len(JSONparse(RegexMatch(last.outcome.text)).value) = 2
    /\ JSONparse(RegexMatch(last.outcome.text)).value[1].name = Str("Egg")
    /\ last.status = 200
    /\ last.body.items[1].name = Str("unidentified item")

\* the names of the items, lowercased, in order
LowerNames(items) == [ i \in DOMAIN items |-> toLowerCase(items[i].name) ]

\* sessionItems and recognizedItems hold the same items
SessionItemsMirror == sessionItems = routerRecognizedItems

\* resetSession empties the images and both lists of items and sets the index to 0
ResetEmpties ==
    [][ (capturedImages' = <<>> /\ capturedImages # <<>>)
        => /\ routerRecognizedItems' = <<>>
           /\ sessionItems' = <<>>
           /\ currentImageIndex' = 0 ]_vars

\* C29: after any calls of handleRecognitionComplete and resetSession, no two of the
\* recognized items have names that are equal up to letter case, also when one
\* recognition result holds a name twice.
C29_RecognizedNamesUnique ==
    \A i, j \in DOMAIN routerRecognizedItems :
        LowerNames(routerRecognizedItems)[i] = LowerNames(routerRecognizedItems)[j]
        => i = j

\* one call chain of processImage makes at most two attempts
RunRetriesAtMostTwo == \A slot \in DOMAIN runs : runs[slot].retries <= 2

\* a call chain of processImage that ends navigates: to /results or /camera
RunEndsNavigating ==
    [][ \A slot \in DOMAIN runs \ DOMAIN runs' :
          LET props == runs[slot].props
          IN  page' = IF runs[slot].at = "addItemsToInventory"
                      THEN (IF props.imageIndex >= props.totalImages - 1
                            THEN "/results" ELSE "/camera")
                      ELSE (IF props.imageIndex > 0 THEN "/results" ELSE "/camera")
      ]_vars

\* Processing, once mounted, is eventually left, when timers fire and requests settle
ProcessingIsLeft == (page = "/processing") ~> (page # "/processing")

\* C30: while Processing is mounted for an image, recognizeImage is called at most
\* twice (one retry after a failure or an empty result) and the recognized items are
\* passed to onRecognitionComplete at most once.
C30_AtMostTwoAttemptsOneCompletion ==
    /\ recognizeCalls <= 2
    /\ completeCalls <= 1

====
